---- MODULE Spec2Model ----
(***************************************************************************)
(* agentci: the test execution engine (runner, assertion registry and      *)
(* evaluators, judge backend selector, chat providers) as a state machine. *)
(*                                                                         *)
(* JavaScript values are tagged records: [t |-> "undefined"],              *)
(* [t |-> "null"], [t |-> "number", v |-> n], [t |-> "string", v |-> s],   *)
(* [t |-> "array", v |-> <<...>>], [t |-> "object", v |-> <<k, v>> pairs   *)
(* in insertion order].  Text the program searches (response content,      *)
(* prompts, assertion values, patterns, judge replies, the judge-provider  *)
(* override) is a tuple of one-character strings; identifiers the program  *)
(* only compares whole (assertion type, tool name, object keys, provider   *)
(* and model names, URLs, credentials) are plain strings.                  *)
(* Wall-clock durations (Date.now()) are not modelled.                     *)
(***************************************************************************)
EXTENDS Integers, Sequences, FiniteSets, TLC

VARIABLES
    config,            \* AgentCIConfig handed to runAllTests: [defaults, tests]
    options,           \* [verbose, providerOverride]
    env,               \* process.env: the four environment inputs, "" when unset
    JUDGE_PROVIDER,    \* module constant of judge.ts, set when the module is loaded
    JUDGE_MODEL,       \* module constant of judge.ts, set when the module is loaded
    pc,                \* where runAllTests/runTest is suspended
    idx,               \* index (1-based) of the test case of the for loop in runAllTests
    ai,                \* index (1-based) of the assertion of the for loop in runTest
    response,          \* the ProviderResponse of the current test case
    assertionResults,  \* runTest's assertionResults array
    results,           \* runAllTests' results array
    runResult,         \* the RunResult returned by runAllTests
    pending,           \* the judge fetch being awaited
    providerLog,       \* history: per test case started, whether a provider was obtained
    chatLog,           \* history: every provider.chat call: [test, provider, request, outcome]
    chatInFlight,      \* history: provider calls issued and not yet settled
    judgeLog,          \* history: every callJudge: [test, assertion, env, url, model, error]
    judgeInFlight,     \* history: judge fetches issued and not yet settled
    evalLog,           \* history: every runAssertion: [test, assertion, called, fetched,
                       \*   completion]
    unitCall,          \* a direct call of an exported function: its name and arguments
    unitResult         \* what the direct calls made so far returned, in order

vars == <<config, options, env, JUDGE_PROVIDER, JUDGE_MODEL, pc, idx, ai, response,
          assertionResults, results, runResult, pending, providerLog, chatLog,
          chatInFlight, judgeLog, judgeInFlight, evalLog, unitCall, unitResult>>

(***************************************************************************)
(* Bounds of the model.                                                    *)
(***************************************************************************)
MaxTests == 4
MaxAssertions == 2
ReasoningLen == 501
MaxWords == 75

(***************************************************************************)
(* JavaScript values and completions.                                      *)
(***************************************************************************)
Undefined == [t |-> "undefined"]
Null == [t |-> "null"]
Str(s) == [t |-> "string", v |-> s]
Num(n) == [t |-> "number", v |-> n]
Arr(a) == [t |-> "array", v |-> a]
Obj(pairs) == [t |-> "object", v |-> pairs]
Bool(b) == [t |-> "boolean", v |-> b]
\* A string the program only compares whole (a name, a key word, a URL).
Id(s) == [t |-> "string", id |-> s]

Return(v) == [kind |-> "return", value |-> v]
\* A template literal: its text and the values substituted into it.
Msg(text, args) == [text |-> text, args |-> args]

\* throw new Error(message), and the errors the runtime throws.
Throw(e) == [kind |-> "throw", error |-> Msg(e, <<>>)]
ThrowMsg(text, args) == [kind |-> "throw", error |-> Msg(text, args)]

(***************************************************************************)
(* String primitives over tuples of characters.                            *)
(***************************************************************************)
UpperChars == <<"A","B","C","D","E","F","G","H","I","J","K","L","M",
                "N","O","P","Q","R","S","T","U","V","W","X","Y","Z">>
LowerChars == <<"a","b","c","d","e","f","g","h","i","j","k","l","m",
                "n","o","p","q","r","s","t","u","v","w","x","y","z">>

LowerChar(c) ==
    IF \E i \in 1..26 : UpperChars[i] = c
    THEN LowerChars[CHOOSE i \in 1..26 : UpperChars[i] = c]
    ELSE c

\* String.prototype.toLowerCase
ToLowerCase(s) == [i \in 1..Len(s) |-> LowerChar(s[i])]

\* String.prototype.startsWith
StartsWith(s, p) == Len(p) <= Len(s) /\ \A i \in 1..Len(p) : s[i] = p[i]

\* String.prototype.endsWith
EndsWith(s, p) ==
    Len(p) <= Len(s) /\ \A i \in 1..Len(p) : s[Len(s) - Len(p) + i] = p[i]

\* String.prototype.includes
Includes(s, p) ==
    \E k \in 0..(Len(s) - Len(p)) : \A i \in 1..Len(p) : s[k + i] = p[i]

WhiteSpace == {" ", "\n", "\t", "\r"}

\* String.prototype.trimStart
TrimStart(s) ==
    IF \A i \in 1..Len(s) : s[i] \in WhiteSpace THEN <<>>
    ELSE LET f == CHOOSE i \in 1..Len(s) :
                      s[i] \notin WhiteSpace /\ \A j \in 1..(i - 1) : s[j] \in WhiteSpace
         IN SubSeq(s, f, Len(s))

\* String.prototype.trimEnd
TrimEnd(s) ==
    IF \A i \in 1..Len(s) : s[i] \in WhiteSpace THEN <<>>
    ELSE LET l == CHOOSE i \in 1..Len(s) :
                      s[i] \notin WhiteSpace /\ \A j \in (i + 1)..Len(s) : s[j] \in WhiteSpace
         IN SubSeq(s, 1, l)

(***************************************************************************)
(* Objects: property lookup and JSON.stringify.                            *)
(***************************************************************************)
\* obj[key] on a plain object: the value of the own property, or undefined.
GetProp(obj, key) ==
    IF obj.t = "object" /\ \E i \in 1..Len(obj.v) : obj.v[i][1] = key
    THEN obj.v[CHOOSE i \in 1..Len(obj.v) : obj.v[i][1] = key][2]
    ELSE Undefined

RECURSIVE DropUndefined(_)
DropUndefined(pairs) ==
    IF pairs = <<>> THEN <<>>
    ELSE IF Head(pairs)[2].t \in {"undefined", "function"} THEN DropUndefined(Tail(pairs))
    ELSE <<Head(pairs)>> \o DropUndefined(Tail(pairs))

\* JSON.stringify, as the structure the text spells out: two values have the same
\* JSON text exactly when these structures are equal.  Object members keep their
\* insertion order, undefined members are dropped, undefined array items become null,
\* and JSON.stringify(undefined) is undefined.
RECURSIVE JSONStringify(_)
JSONStringify(x) ==
    CASE x.t = "array" ->
           Arr([i \in 1..Len(x.v) |->
                   IF x.v[i].t \in {"undefined", "function"} THEN Null
                   ELSE JSONStringify(x.v[i])])
      [] x.t = "object" ->
           LET kept == DropUndefined(x.v)
           IN Obj([i \in 1..Len(kept) |-> <<kept[i][1], JSONStringify(kept[i][2])>>])
      [] OTHER -> x

\* ToBoolean
Truthy(x) ==
    CASE x.t \in {"undefined", "null"} -> FALSE
      [] x.t = "string" -> IF "id" \in DOMAIN x THEN x.id # "" ELSE x.v # <<>>
      [] x.t = "number" -> x.v # 0
      [] x.t = "boolean" -> x.v
      [] OTHER -> TRUE

(***************************************************************************)
(* assertions/text.ts                                                      *)
(***************************************************************************)
\* value.toLowerCase() for the `value` of an assertion record.
ValueToLowerCase(value) ==
    CASE value.t = "string" -> Return(ToLowerCase(value.v))
      [] value.t \in {"undefined", "null"} ->
           Throw("TypeError: Cannot read properties of undefined (reading 'toLowerCase')")
      [] OTHER -> Throw("TypeError: value.toLowerCase is not a function")

assertContains(resp, assertion) ==
    LET value == assertion.value
        lowered == ValueToLowerCase(value)
    IN IF lowered.kind = "throw" THEN lowered
       ELSE LET passed == Includes(ToLowerCase(resp.content), lowered.value)
            IN Return([passed |-> passed,
                       message |-> IF passed
                                   THEN Msg("contains \"${value}\"", <<value>>)
                                   ELSE Msg("expected response to contain \"${value}\"",
                                            <<value>>)])

\* Variant of assertNotContains that compares the value as written.
assertNotContainsAsWritten(resp, assertion) ==
    LET value == assertion.value
        passed == ~Includes(ToLowerCase(resp.content), value.v)
    IN Return([passed |-> passed,
               message |-> IF passed
                           THEN Msg("does not contain \"${value}\"", <<value>>)
                           ELSE Msg("expected response to NOT contain \"${value}\"",
                                    <<value>>)])

assertNotContains(resp, assertion) ==
    LET value == assertion.value
        lowered == ValueToLowerCase(value)
    IN IF lowered.kind = "throw" THEN lowered
       ELSE LET passed == ~Includes(ToLowerCase(resp.content), lowered.value)
            IN Return([passed |-> passed,
                       message |-> IF passed
                                   THEN Msg("does not contain \"${value}\"", <<value>>)
                                   ELSE Msg("expected response to NOT contain \"${value}\"",
                                            <<value>>)])

\* The regular expressions of the model: a literal, or one group of alternative
\* literals "(a|b|c)"; an unbalanced parenthesis is a SyntaxError.
MetaChars == {"(", ")", "|", "[", "]", "{", "}", "*", "+", "?", ".", "\\", "^", "$"}

RECURSIVE SplitOn(_, _)
SplitOn(s, sep) ==
    IF \A i \in 1..Len(s) : s[i] # sep THEN <<s>>
    ELSE LET k == CHOOSE i \in 1..Len(s) : s[i] = sep /\ \A j \in 1..(i - 1) : s[j] # sep
         IN <<SubSeq(s, 1, k - 1)>> \o SplitOn(SubSeq(s, k + 1, Len(s)), sep)

CountChar(s, c) == Cardinality({i \in 1..Len(s) : s[i] = c})

\* new RegExp(pattern, "i"): the alternatives the expression matches, or a throw.
\* new RegExp(undefined) is the empty expression /(?:)/, which matches every string.
NewRegExp(pattern) ==
    CASE pattern.t = "undefined" -> Return(<< <<>> >>)
      [] pattern.t = "string" /\ CountChar(pattern.v, "(") # CountChar(pattern.v, ")") ->
           Throw("SyntaxError: Invalid regular expression: Unterminated group")
      [] pattern.t = "string" /\ \A i \in 1..Len(pattern.v) : pattern.v[i] \notin MetaChars ->
           Return(<<pattern.v>>)
      [] pattern.t = "string" /\ Len(pattern.v) >= 2
            /\ pattern.v[1] = "(" /\ pattern.v[Len(pattern.v)] = ")"
            /\ \A i \in 2..(Len(pattern.v) - 1) : pattern.v[i] \notin (MetaChars \ {"|"}) ->
           Return(SplitOn(SubSeq(pattern.v, 2, Len(pattern.v) - 1), "|"))

\* RegExp.prototype.test with the "i" flag.
RegExpTest(re, s) ==
    \E k \in 1..Len(re) : Includes(ToLowerCase(s), ToLowerCase(re[k]))

assertRegex(resp, assertion) ==
    LET pattern == assertion.pattern
        re == NewRegExp(pattern)
    IN IF re.kind = "throw" THEN re
       ELSE LET passed == RegExpTest(re.value, resp.content)
            IN Return([passed |-> passed,
                       message |-> IF passed
                                   THEN Msg("matches pattern /${pattern}/", <<pattern>>)
                                   ELSE Msg("expected response to match /${pattern}/",
                                            <<pattern>>)])

assertStartsWith(resp, assertion) ==
    LET value == assertion.value
        lowered == ValueToLowerCase(value)
    IN IF lowered.kind = "throw" THEN lowered
       ELSE LET passed == StartsWith(ToLowerCase(TrimStart(resp.content)), lowered.value)
            IN Return([passed |-> passed,
                       message |-> IF passed
                                   THEN Msg("starts with \"${value}\"", <<value>>)
                                   ELSE Msg("expected response to start with \"${value}\"",
                                            <<value>>)])

assertEndsWith(resp, assertion) ==
    LET value == assertion.value
        lowered == ValueToLowerCase(value)
    IN IF lowered.kind = "throw" THEN lowered
       ELSE LET passed == EndsWith(ToLowerCase(TrimEnd(resp.content)), lowered.value)
            IN Return([passed |-> passed,
                       message |-> IF passed
                                   THEN Msg("ends with \"${value}\"", <<value>>)
                                   ELSE Msg("expected response to end with \"${value}\"",
                                            <<value>>)])

(***************************************************************************)
(* assertions/tokens.ts                                                    *)
(***************************************************************************)
\* text.split(/\s+/).filter((w) => w.length > 0).length
WordCount(text) ==
    Cardinality({i \in 1..Len(text) :
                    text[i] \notin WhiteSpace /\ (i = 1 \/ text[i - 1] \in WhiteSpace)})

\* Variant of estimateTokens that rounds down.
estimateTokensFloor(text) == (4 * WordCount(text)) \div 3

\* Math.ceil(words / 0.75): words / 0.75 is 4 * words / 3, whose fractional part is
\* 0, 1/3 or 2/3, so the floating-point quotient has the same ceiling.
estimateTokens(text) == (4 * WordCount(text) + 2) \div 3

\* estimated <= maxTokens: a comparison with undefined (NaN) is false.
assertMaxTokens(resp, assertion) ==
    LET maxTokens == assertion.value
        estimated == estimateTokens(resp.content)
        passed == maxTokens.t = "number" /\ estimated <= maxTokens.v
    IN Return([passed |-> passed,
               message |-> IF passed
                           THEN Msg("response ~${estimated} tokens <= ${maxTokens} max",
                                    <<Num(estimated), maxTokens>>)
                           ELSE Msg("expected response to be under ${maxTokens} tokens, but got ~${estimated}",
                                    <<maxTokens, Num(estimated)>>)])

assertMinTokens(resp, assertion) ==
    LET minTokens == assertion.value
        estimated == estimateTokens(resp.content)
        passed == minTokens.t = "number" /\ estimated >= minTokens.v
    IN Return([passed |-> passed,
               message |-> IF passed
                           THEN Msg("response ~${estimated} tokens >= ${minTokens} min",
                                    <<Num(estimated), minTokens>>)
                           ELSE Msg("expected response to be at least ${minTokens} tokens, but got ~${estimated}",
                                    <<minTokens, Num(estimated)>>)])

(***************************************************************************)
(* assertions/tools.ts                                                     *)
(***************************************************************************)
\* tc.name === toolName
NameIs(tc, toolName) == toolName.t = "string" /\ tc.name = toolName.id

assertToolCalled(resp, assertion) ==
    LET toolName == assertion.name
    IN IF resp.tool_calls.t = "undefined"
       THEN Throw("TypeError: Cannot read properties of undefined (reading 'some')")
       ELSE LET calls == resp.tool_calls.v
                passed == \E i \in 1..Len(calls) : NameIs(calls[i], toolName)
            IN Return([passed |-> passed,
                       message |->
                         IF passed THEN Msg("tool \"${toolName}\" was called", <<toolName>>)
                         ELSE IF Len(calls) = 0
                         THEN Msg("expected ${toolName} to be called, but no tool calls made",
                                  <<toolName>>)
                         ELSE Msg("expected ${toolName} to be called, but only [${names}] called",
                                  <<toolName, [i \in 1..Len(calls) |-> calls[i].name]>>)])

\* The mismatches array: one entry per key of expectedArgs whose JSON text differs.
RECURSIVE Mismatches(_, _)
Mismatches(expected, arguments) ==
    IF expected = <<>> THEN <<>>
    ELSE LET key == Head(expected)[1]
             value == Head(expected)[2]
             actual == GetProp(arguments, key)
         IN (IF JSONStringify(actual) # JSONStringify(value)
             THEN <<Msg("${key}: expected ${value}, got ${actual}",
                        <<key, JSONStringify(value), JSONStringify(actual)>>)>>
             ELSE <<>>)
            \o Mismatches(Tail(expected), arguments)

\* A tool_args that compares against the last invocation of the named tool.
assertToolArgsLastInvocation(resp, assertion) ==
    LET toolName == assertion.name
        expectedArgs == assertion.contains
    IN IF resp.tool_calls.t = "undefined"
       THEN Throw("TypeError: Cannot read properties of undefined (reading 'find')")
       ELSE LET calls == resp.tool_calls.v
            IN IF ~\E i \in 1..Len(calls) : NameIs(calls[i], toolName)
               THEN Return([passed |-> FALSE,
                            message |-> Msg("expected ${toolName} to be called with specific args, but it was not called",
                                            <<toolName>>)])
               ELSE IF expectedArgs.t \in {"undefined", "null"}
               THEN Throw("TypeError: Cannot convert undefined or null to object")
               ELSE LET toolCall == calls[CHOOSE i \in 1..Len(calls) :
                                             /\ NameIs(calls[i], toolName)
                                             /\ \A j \in (i + 1)..Len(calls) :
                                                   ~NameIs(calls[j], toolName)]
                        mismatches == Mismatches(expectedArgs.v, toolCall.arguments)
                        passed == Len(mismatches) = 0
                    IN Return([passed |-> passed,
                               message |->
                                 IF passed
                                 THEN Msg("tool \"${toolName}\" called with expected args",
                                          <<toolName>>)
                                 ELSE Msg("tool \"${toolName}\" args mismatch: ${mismatches}",
                                          <<toolName, mismatches>>)])

assertToolArgs(resp, assertion) ==
    LET toolName == assertion.name
        expectedArgs == assertion.contains
    IN IF resp.tool_calls.t = "undefined"
       THEN Throw("TypeError: Cannot read properties of undefined (reading 'find')")
       ELSE LET calls == resp.tool_calls.v
            IN IF ~\E i \in 1..Len(calls) : NameIs(calls[i], toolName)
               THEN Return([passed |-> FALSE,
                            message |-> Msg("expected ${toolName} to be called with specific args, but it was not called",
                                            <<toolName>>)])
               ELSE IF expectedArgs.t \in {"undefined", "null"}
               THEN Throw("TypeError: Cannot convert undefined or null to object")
               ELSE LET toolCall == calls[CHOOSE i \in 1..Len(calls) :
                                             /\ NameIs(calls[i], toolName)
                                             /\ \A j \in 1..(i - 1) : ~NameIs(calls[j], toolName)]
                        mismatches == Mismatches(expectedArgs.v, toolCall.arguments)
                        passed == Len(mismatches) = 0
                    IN Return([passed |-> passed,
                               message |->
                                 IF passed
                                 THEN Msg("tool \"${toolName}\" called with expected args",
                                          <<toolName>>)
                                 ELSE Msg("tool \"${toolName}\" args mismatch: ${mismatches}",
                                          <<toolName, mismatches>>)])

(***************************************************************************)
(* Texts of the model.                                                     *)
(***************************************************************************)
TextEmptyObject ==
    <<"{","}">>
TextVerdictPass ==
    <<"{","\"","p","a","s","s","\"",":"," ","t","r","u","e",","," ","\"","r","e","a","s","o",
    "n","i","n","g","\"",":"," ","\"","o","k","\"","}">>
TextVerdictFail ==
    <<"{","\"","p","a","s","s","\"",":"," ","f","a","l","s","e",","," ","\"","r","e","a","s",
    "o","n","i","n","g","\"",":"," ","\"","N","o","t"," ","g","o","o","d","\"","}">>
TextRateLimited ==
    <<"R","a","t","e"," ","l","i","m","i","t","e","d">>
TextNameNumber ==
    <<"{","\"","n","a","m","e","\"",":","1","2","3","}">>
TextNameString ==
    <<"{","\"","n","a","m","e","\"",":","\"","A","l","\"","}">>
TextHelloWorld ==
    <<"H","E","L","L","O"," ","W","O","R","L","D">>
TextHelloWorldMixed ==
    <<"H","e","l","l","o",","," ","W","o","r","l","d","!">>
TextWorldBang ==
    <<"W","O","R","L","D","!">>
TextO ==
    <<"O">>
TextOk ==
    <<"o","k">>
TextNotGood ==
    <<"N","o","t"," ","g","o","o","d">>
TextAl ==
    <<"A","l">>
TextObjectUndefined ==
    <<"[","o","b","j","e","c","t"," ","U","n","d","e","f","i","n","e","d","]">>
TextOpenai ==
    <<"o","p","e","n","a","i">>
TextAnthropic ==
    <<"a","n","t","h","r","o","p","i","c">>
PromptRefund ==
    <<"I"," ","w","a","n","t"," ","a"," ","r","e","f","u","n","d"," ","f","o","r"," ","m","y",
    " ","l","a","s","t"," ","p","u","r","c","h","a","s","e">>
PromptWeather ==
    <<"W","h","a","t","'","s"," ","t","h","e"," ","w","e","a","t","h","e","r"," ","i","n"," ",
    "P","a","r","i","s","?">>
TextRefund ==
    <<"r","e","f","u","n","d">>
TextOrderNumber ==
    <<"o","r","d","e","r"," ","n","u","m","b","e","r">>
TextTrackingNumber ==
    <<"t","r","a","c","k","i","n","g"," ","n","u","m","b","e","r">>
TextHello ==
    <<"h","e","l","l","o">>
TextParis ==
    <<"P","a","r","i","s">>
TextLondon ==
    <<"L","o","n","d","o","n">>
TextCelsius ==
    <<"c","e","l","s","i","u","s">>
TextToolArgs ==
    <<"{","\"","c","i","t","y","\"",":","\"","P","a","r","i","s","\"",",","\"","u","n","i","t",
    "s","\"",":","\"","c","e","l","s","i","u","s","\"","}">>
TextBadToolArgs ==
    <<"{","\"","c","i","t","y","\"",":">>
TextCriterion ==
    <<"S","h","o","u","l","d"," ","b","e"," ","p","o","l","i","t","e">>
TextOpenParen ==
    <<"(">>
TextAlternatives ==
    <<"(","o","r","d","e","r","|","a","s","s","i","s","t","|","h","e","l","p",")">>

TextVerdictPassed ==
    <<"{","\"","p","a","s","s","e","d","\"",":"," ","t","r","u","e",","," ","\"","r","e","a",
    "s","o","n","\"",":"," ","\"","o","k","\"","}">>
TextVerdictBare ==
    <<"{","\"","p","a","s","s","\"",":"," ","t","r","u","e","}">>
TextVerdictNoBoolean ==
    <<"{","\"","r","e","a","s","o","n","i","n","g","\"",":"," ","\"","o","k","\"","}">>
TextVerdictBothKeys ==
    <<"{","\"","p","a","s","s","\"",":"," ","f","a","l","s","e",","," ","\"","p","a","s","s",
    "e","d","\"",":"," ","t","r","u","e",","," ","\"","r","e","a","s","o","n","i","n","g","\"",
    ":"," ","\"","o","k","\"","}">>
TextVerdictBothReasons ==
    <<"{","\"","p","a","s","s","\"",":"," ","t","r","u","e",","," ","\"","r","e","a","s","o",
    "n","i","n","g","\"",":"," ","\"","o","k","\"",","," ","\"","r","e","a","s","o","n","\"",
    ":"," ","\"","N","o","t"," ","g","o","o","d","\"","}">>
TextVerdictLongHead ==
    <<"{","\"","p","a","s","s","\"",":"," ","t","r","u","e",","," ","\"","r","e","a","s","o",
    "n","i","n","g","\"",":"," ","\"">>
TextVerdictLongTail ==
    <<"\"","}">>
\* The fences of a Markdown code block, in their tilde form (a backquote cannot be
\* written in a string of this language; no function of the program tells them apart).
TextFenceOpen ==
    <<"~","~","~","j","s","o","n","\n">>
TextFenceClose ==
    <<"\n","~","~","~">>
TextLeadIn ==
    <<"H","e","r","e"," ","i","s"," ","m","y"," ","v","e","r","d","i","c","t",":"," ">>
TextDone ==
    <<" ","D","o","n","e",".">>
TextTrailingBrace ==
    <<" ","T","h","a","n","k","s"," ",":","}">>
TextLongReasoning ==
    [i \in 1..ReasoningLen |-> "x"]
TextVerdictLong ==
    TextVerdictLongHead \o TextLongReasoning \o TextVerdictLongTail
TextSecondObject ==
    <<" ">> \o TextVerdictFail

TextKeyPrompt ==
    <<"p","r","o","m","p","t">>
TextKeySystem ==
    <<"s","y","s","t","e","m">>
TextKeyModel ==
    <<"m","o","d","e","l">>
TextKeyTemperature ==
    <<"t","e","m","p","e","r","a","t","u","r","e">>
TextKeyMaxTokens ==
    <<"m","a","x","_","t","o","k","e","n","s">>
TextKeyTools ==
    <<"t","o","o","l","s">>
TextKeyConstructor ==
    <<"c","o","n","s","t","r","u","c","t","o","r">>
TextKeyToString ==
    <<"t","o","S","t","r","i","n","g">>
TplPrompt ==
    <<"{","{","p","r","o","m","p","t","}","}">>
TplTemperature ==
    <<"{","{","t","e","m","p","e","r","a","t","u","r","e","}","}">>
TplMaxTokens ==
    <<"{","{","m","a","x","_","t","o","k","e","n","s","}","}">>
TplTools ==
    <<"{","{","t","o","o","l","s","}","}">>
TplSystem ==
    <<"{","{","s","y","s","t","e","m","}","}">>
TplNoSuch ==
    <<"{","{","n","o","s","u","c","h","}","}">>
TplSentence ==
    <<"Q",":"," ","{","{","p","r","o","m","p","t","}","}"," ","(","t","=","{","{","t","e","m",
    "p","e","r","a","t","u","r","e","}","}",")">>
TplBracketed ==
    <<"[","{","{","n","o","s","u","c","h","}","}","]">>
TplConstructor ==
    <<"{","{","c","o","n","s","t","r","u","c","t","o","r","}","}">>
TplToStringInline ==
    <<"v","=","{","{","t","o","S","t","r","i","n","g","}","}">>
TplPlain ==
    <<"p","l","a","i","n"," ","{"," ","t","e","x","t"," ","}","}">>
TextNativeConstructor ==
    <<"f","u","n","c","t","i","o","n"," ","O","b","j","e","c","t","(",")"," ","{"," ","[","n",
    "a","t","i","v","e"," ","c","o","d","e","]"," ","}">>
TextNativeToString ==
    <<"f","u","n","c","t","i","o","n"," ","t","o","S","t","r","i","n","g","(",")"," ","{"," ",
    "[","n","a","t","i","v","e"," ","c","o","d","e","]"," ","}">>
TextObjectObject ==
    <<"[","o","b","j","e","c","t"," ","O","b","j","e","c","t","]">>
TextTestModel ==
    <<"t","e","s","t","-","m","o","d","e","l">>
TextGetWeather ==
    <<"g","e","t","_","w","e","a","t","h","e","r">>
TextWhatIs ==
    <<"W","h","a","t"," ","i","s"," ","2","+","2","?">>

(***************************************************************************)
(* JSON.parse on the texts of the model.  Every other text the model       *)
(* hands to JSON.parse (prose, the empty string) is not JSON.              *)
(***************************************************************************)
JsonTexts ==
    << <<TextEmptyObject, Obj(<<>>)>>,
       <<TextVerdictPass, Obj(<< <<"pass", Bool(TRUE)>>, <<"reasoning", Str(TextOk)>> >>)>>,
       <<TextVerdictFail, Obj(<< <<"pass", Bool(FALSE)>>, <<"reasoning", Str(TextNotGood)>> >>)>>,
       <<TextNameNumber, Obj(<< <<"name", Num(123)>> >>)>>,
       <<TextNameString, Obj(<< <<"name", Str(TextAl)>> >>)>>,
       <<TextToolArgs, Obj(<< <<"city", Str(TextParis)>>, <<"units", Str(TextCelsius)>> >>)>>,
       <<TextVerdictPassed, Obj(<< <<"passed", Bool(TRUE)>>, <<"reason", Str(TextOk)>> >>)>>,
       <<TextVerdictBare, Obj(<< <<"pass", Bool(TRUE)>> >>)>>,
       <<TextVerdictNoBoolean, Obj(<< <<"reasoning", Str(TextOk)>> >>)>>,
       <<TextVerdictBothKeys, Obj(<< <<"pass", Bool(FALSE)>>, <<"passed", Bool(TRUE)>>,
                                     <<"reasoning", Str(TextOk)>> >>)>>,
       <<TextVerdictBothReasons, Obj(<< <<"pass", Bool(TRUE)>>, <<"reasoning", Str(TextOk)>>,
                                        <<"reason", Str(TextNotGood)>> >>)>>,
       <<TextVerdictLong, Obj(<< <<"pass", Bool(TRUE)>>,
                                 <<"reasoning", Str(TextLongReasoning)>> >>)>> >>

JSONParse(text) ==
    IF \E i \in 1..Len(JsonTexts) : JsonTexts[i][1] = text
    THEN Return(JsonTexts[CHOOSE i \in 1..Len(JsonTexts) : JsonTexts[i][1] = text][2])
    ELSE Throw("SyntaxError: Unexpected token in JSON")

(***************************************************************************)
(* assertions/json.ts                                                      *)
(***************************************************************************)
assertJsonValid(resp, assertion) ==
    IF JSONParse(resp.content).kind = "return"
    THEN Return([passed |-> TRUE, message |-> Msg("response is valid JSON", <<>>)])
    ELSE Return([passed |-> FALSE, message |-> Msg("expected response to be valid JSON", <<>>)])

\* ajv.compile(schema): Ajv accepts an object or a boolean and throws on anything else.
AjvCompile(schema) ==
    IF schema.t \in {"object", "boolean"} THEN Return(schema)
    ELSE Throw("Error: schema must be object or boolean")

\* The JSON type names of Ajv's `type` keyword.
JsonType(data) == data.t

\* validate(parsed) for the keywords `type` and `properties`: validate.errors, which
\* holds the first failure only (Ajv's default, allErrors off).
RECURSIVE AjvErrors(_, _, _)
AjvErrors(schema, data, path) ==
    LET type == GetProp(schema, "type")
        properties == GetProp(schema, "properties")
        failing == IF properties.t = "object" /\ data.t = "object"
                   THEN {i \in 1..Len(properties.v) :
                            /\ \E j \in 1..Len(data.v) : data.v[j][1] = properties.v[i][1]
                            /\ AjvErrors(properties.v[i][2],
                                         GetProp(data, properties.v[i][1]),
                                         Append(path, properties.v[i][1])) # <<>>}
                   ELSE {}
    IN IF type.t = "string" /\ JsonType(data) # type.id
       THEN <<[instancePath |-> path, message |-> Msg("must be ${type}", <<type.id>>)]>>
       ELSE IF failing # {}
       THEN LET i == CHOOSE k \in failing : \A m \in failing : k <= m
            IN AjvErrors(properties.v[i][2], GetProp(data, properties.v[i][1]),
                         Append(path, properties.v[i][1]))
       ELSE <<>>

assertJsonSchema(resp, assertion) ==
    LET schema == assertion.schema
        parsed == JSONParse(resp.content)
    IN IF parsed.kind = "throw"
       THEN Return([passed |-> FALSE,
                    message |-> Msg("expected response to be valid JSON for schema validation",
                                    <<>>)])
       ELSE LET validate == AjvCompile(schema)
            IN IF validate.kind = "throw" THEN validate
               ELSE LET errors == AjvErrors(schema, parsed.value, <<>>)
                    IN IF errors = <<>>
                       THEN Return([passed |-> TRUE,
                                    message |-> Msg("response matches JSON schema", <<>>)])
                       ELSE Return([passed |-> FALSE,
                                    message |-> Msg("JSON schema validation failed: ${errors}",
                                                    <<errors>>)])

(***************************************************************************)
(* assertions/judge.ts (the dual-backend version)                          *)
(***************************************************************************)
OPENAI_URL == "https://api.openai.com/v1/chat/completions"
ANTHROPIC_URL == "https://api.anthropic.com/v1/messages"

\* String.prototype.slice(0, n)
SliceTo(s, n) == SubSeq(s, 1, IF Len(s) < n THEN Len(s) ELSE n)

\* detectJudgeBackend(): the backend and model, or an error.  JUDGE_PROVIDER and
\* JUDGE_MODEL are the module constants; the credentials are read from process.env.
detectJudgeBackend(e, judgeProvider, judgeModel) ==
    LET provider == ToLowerCase(judgeProvider)
        anthropic == [backend |-> "anthropic",
                      model |-> IF judgeModel # "" THEN judgeModel
                                ELSE "claude-sonnet-4-20250514"]
        openai == [backend |-> "openai",
                   model |-> IF judgeModel # "" THEN judgeModel ELSE "gpt-4o-mini"]
    IN CASE provider = TextAnthropic ->
              IF e.ANTHROPIC_API_KEY = ""
              THEN [error |-> "AGENTCI_JUDGE_PROVIDER=anthropic but ANTHROPIC_API_KEY not set"]
              ELSE anthropic
         [] provider = TextOpenai ->
              IF e.OPENAI_API_KEY = ""
              THEN [error |-> "AGENTCI_JUDGE_PROVIDER=openai but OPENAI_API_KEY not set"]
              ELSE openai
         [] OTHER ->
              IF e.OPENAI_API_KEY # "" THEN openai
              ELSE IF e.ANTHROPIC_API_KEY # "" THEN anthropic
              ELSE [error |-> "No API key found for judge. Set OPENAI_API_KEY or ANTHROPIC_API_KEY."]

\* Variant of parseJudgeResponse that reads the verdict from `pass` alone.
parseJudgeResponsePassOnly(content) ==
    LET opens == {i \in 1..Len(content) : content[i] = "{"}
        first == CHOOSE i \in opens : \A j \in opens : i <= j
        closes == {i \in 1..Len(content) : content[i] = "}"}
        last == CHOOSE i \in closes : \A j \in closes : j <= i
        \* content.match(/\{[\s\S]*\}/): from the first "{" to the last "}" after it
        matched == opens # {} /\ \E i \in closes : i > first
        jsonStr == IF matched THEN SubSeq(content, first, last) ELSE content
        parsed == JSONParse(jsonStr)
        failed == [passed |-> FALSE,
                   reasoning |-> Msg("Failed to parse judge response: ${content.slice(0, 200)}",
                                     <<SliceTo(content, 200)>>)]
    IN IF parsed.kind = "throw" \/ parsed.value.t \in {"null", "undefined"} THEN failed
       ELSE LET pass == GetProp(parsed.value, "pass")
                verdict == pass
                reasoning == GetProp(parsed.value, "reasoning")
                reason == GetProp(parsed.value, "reason")
                text == IF reasoning.t \notin {"undefined", "null"} THEN reasoning
                        ELSE IF reason.t \notin {"undefined", "null"} THEN reason
                        ELSE Str(<<"N","o"," ","r","e","a","s","o","n","i","n","g"," ",
                                   "p","r","o","v","i","d","e","d">>)
            IN IF text.t \notin {"string", "array"} THEN failed  \* .slice is not a function
               ELSE [passed |-> Truthy(verdict),
                     reasoning |-> Msg("${reasoning}", <<SliceTo(text.v, 500)>>)]

\* parseJudgeResponse(content)
parseJudgeResponse(content) ==
    LET opens == {i \in 1..Len(content) : content[i] = "{"}
        first == CHOOSE i \in opens : \A j \in opens : i <= j
        closes == {i \in 1..Len(content) : content[i] = "}"}
        last == CHOOSE i \in closes : \A j \in closes : j <= i
        \* content.match(/\{[\s\S]*\}/): from the first "{" to the last "}" after it
        matched == opens # {} /\ \E i \in closes : i > first
        jsonStr == IF matched THEN SubSeq(content, first, last) ELSE content
        parsed == JSONParse(jsonStr)
        failed == [passed |-> FALSE,
                   reasoning |-> Msg("Failed to parse judge response: ${content.slice(0, 200)}",
                                     <<SliceTo(content, 200)>>)]
    IN IF parsed.kind = "throw" \/ parsed.value.t \in {"null", "undefined"} THEN failed
       ELSE LET pass == GetProp(parsed.value, "pass")
                verdict == IF pass.t \in {"undefined", "null"}
                           THEN GetProp(parsed.value, "passed") ELSE pass
                reasoning == GetProp(parsed.value, "reasoning")
                reason == GetProp(parsed.value, "reason")
                text == IF reasoning.t \notin {"undefined", "null"} THEN reasoning
                        ELSE IF reason.t \notin {"undefined", "null"} THEN reason
                        ELSE Str(<<"N","o"," ","r","e","a","s","o","n","i","n","g"," ",
                                   "p","r","o","v","i","d","e","d">>)
            IN IF text.t \notin {"string", "array"} THEN failed  \* .slice is not a function
               ELSE [passed |-> Truthy(verdict),
                     reasoning |-> Msg("${reasoning}", <<SliceTo(text.v, 500)>>)]

\* What a fetch settles to: a rejection (network failure), or a Response with
\* ok/status, its text(), and its json() (`invalid` when the body is not JSON).
JudgeApiError(backendName, reply) ==
    [passed |-> FALSE,
     reasoning |-> Msg("Judge API error (${backend}): ${resp.status} ${text.slice(0, 200)}",
                       <<backendName, reply.status, SliceTo(reply.text, 200)>>)]

\* callJudgeOpenAI, from the point its fetch settles.
callJudgeOpenAI(reply) ==
    IF reply.kind = "reject" THEN Throw("TypeError: fetch failed")
    ELSE IF ~reply.ok THEN Return(JudgeApiError("OpenAI", reply))
    ELSE IF reply.json.t = "invalid" THEN Throw("SyntaxError: Unexpected token in JSON")
    ELSE LET choices == GetProp(reply.json, "choices")
         IN IF choices.t # "array"
            THEN Throw("TypeError: Cannot read properties of undefined (reading '0')")
            ELSE LET message == IF Len(choices.v) = 0 THEN Undefined
                                ELSE GetProp(choices.v[1], "message")
                     content == GetProp(message, "content")
                 IN Return(parseJudgeResponse(IF Truthy(content) THEN content.v
                                              ELSE TextEmptyObject))

\* callJudgeAnthropic, from the point its fetch settles.
callJudgeAnthropic(reply) ==
    IF reply.kind = "reject" THEN Throw("TypeError: fetch failed")
    ELSE IF ~reply.ok THEN Return(JudgeApiError("Anthropic", reply))
    ELSE IF reply.json.t = "invalid" THEN Throw("SyntaxError: Unexpected token in JSON")
    ELSE LET blocks == GetProp(reply.json, "content")
         IN IF blocks.t # "array"
            THEN Throw("TypeError: Cannot read properties of undefined (reading 'find')")
            ELSE LET texts == {i \in 1..Len(blocks.v) :
                                  GetProp(blocks.v[i], "type") = Id("text")}
                     block == IF texts = {} THEN Undefined
                              ELSE blocks.v[CHOOSE i \in texts : \A j \in texts : i <= j]
                     text == GetProp(block, "text")
                 IN Return(parseJudgeResponse(IF Truthy(text) THEN text.v
                                              ELSE TextEmptyObject))

\* callJudge up to its fetch: a local failure, or the request that is issued.
callJudge(e, judgeProvider, judgeModel) ==
    LET cfg == detectJudgeBackend(e, judgeProvider, judgeModel)
    IN IF "error" \in DOMAIN cfg
       THEN Return([passed |-> FALSE, reasoning |-> Msg(cfg.error, <<>>)])
       ELSE [kind |-> "await",
             fetch |-> [backend |-> cfg.backend,
                        url |-> IF cfg.backend = "anthropic" THEN ANTHROPIC_URL ELSE OPENAI_URL,
                        model |-> cfg.model,
                        key |-> IF cfg.backend = "anthropic" THEN e.ANTHROPIC_API_KEY
                                ELSE e.OPENAI_API_KEY]]

\* callJudge from the point its fetch settles.
callJudgeSettled(fetch, reply) ==
    IF fetch.backend = "anthropic" THEN callJudgeAnthropic(reply) ELSE callJudgeOpenAI(reply)

\* The AssertionResult a judge evaluator builds from the JudgeResponse.
JudgeResult(type, judge) ==
    [passed |-> judge.passed,
     message |-> IF judge.passed
                 THEN Msg("${type} passed: ${judge.reasoning}", <<type, judge.reasoning>>)
                 ELSE Msg("${type} failed: ${judge.reasoning}", <<type, judge.reasoning>>)]

\* Variant of JudgeStart without the check of the value.
JudgeStartUnchecked(type, requires, assertion, e, judgeProvider, judgeModel) ==
    LET c == callJudge(e, judgeProvider, judgeModel)
    IN IF c.kind = "return" THEN Return(JudgeResult(type, c.value))
       ELSE [kind |-> "await", fetch |-> c.fetch @@ [type |-> type]]

\* A judge evaluator up to its await: `if (!value) return ...`, then callJudge.
JudgeStart(type, requires, assertion, e, judgeProvider, judgeModel) ==
    IF ~Truthy(assertion.value)
    THEN Return([passed |-> FALSE, message |-> Msg(requires, <<>>)])
    ELSE LET c == callJudge(e, judgeProvider, judgeModel)
         IN IF c.kind = "return" THEN Return(JudgeResult(type, c.value))
            ELSE [kind |-> "await", fetch |-> c.fetch @@ [type |-> type]]

assertLlmJudge(resp, assertion, e, judgeProvider, judgeModel) ==
    JudgeStart("llm_judge",
               "llm_judge requires a 'value' field with the evaluation criterion",
               assertion, e, judgeProvider, judgeModel)

assertSemanticSimilarity(resp, assertion, e, judgeProvider, judgeModel) ==
    JudgeStart("semantic_similarity",
               "semantic_similarity requires a 'value' field with the reference text",
               assertion, e, judgeProvider, judgeModel)

assertSentiment(resp, assertion, e, judgeProvider, judgeModel) ==
    JudgeStart("sentiment",
               "sentiment requires a 'value' field with the expected tone",
               assertion, e, judgeProvider, judgeModel)

\* A judge evaluator from the point its fetch settles.
JudgeSettled(fetch, reply) ==
    LET c == callJudgeSettled(fetch, reply)
    IN IF c.kind = "throw" THEN c ELSE Return(JudgeResult(fetch.type, c.value))

(***************************************************************************)
(* assertions/index.ts                                                     *)
(***************************************************************************)
\* The own keys of the registry object literal.
RegisteredTypes ==
    {"contains", "not_contains", "regex", "starts_with", "ends_with", "max_tokens",
     "min_tokens", "tool_called", "tool_args", "json_valid", "json_schema",
     "llm_judge", "semantic_similarity", "sentiment"}

JudgeTypes == {"llm_judge", "semantic_similarity", "sentiment"}

\* registry[type]: an own property, else what the object literal inherits from
\* Object.prototype (functions, and the accessor __proto__), else undefined.
RegistryLookup(type) ==
    CASE type \in RegisteredTypes -> [t |-> "function", name |-> type]
      [] type \in {"constructor", "toString", "hasOwnProperty", "valueOf"} ->
           [t |-> "function", name |-> type]
      [] type = "__proto__" -> Obj(<<>>)
      [] OTHER -> Undefined

\* fn(response, assertion) for the value found in the registry, up to the first await.
\* The inherited members are called with `this` undefined: Object(response) returns
\* its argument, Object.prototype.toString gives "[object Undefined]", and
\* hasOwnProperty and valueOf throw on an undefined receiver.
CallEvaluator(fn, resp, assertion, e, judgeProvider, judgeModel) ==
    CASE fn.t # "function" -> Throw("TypeError: fn is not a function")
      [] fn.t = "function" /\ fn.name = "contains" -> assertContains(resp, assertion)
      [] fn.t = "function" /\ fn.name = "not_contains" -> assertNotContains(resp, assertion)
      [] fn.t = "function" /\ fn.name = "regex" -> assertRegex(resp, assertion)
      [] fn.t = "function" /\ fn.name = "starts_with" -> assertStartsWith(resp, assertion)
      [] fn.t = "function" /\ fn.name = "ends_with" -> assertEndsWith(resp, assertion)
      [] fn.t = "function" /\ fn.name = "max_tokens" -> assertMaxTokens(resp, assertion)
      [] fn.t = "function" /\ fn.name = "min_tokens" -> assertMinTokens(resp, assertion)
      [] fn.t = "function" /\ fn.name = "tool_called" -> assertToolCalled(resp, assertion)
      [] fn.t = "function" /\ fn.name = "tool_args" -> assertToolArgs(resp, assertion)
      [] fn.t = "function" /\ fn.name = "json_valid" -> assertJsonValid(resp, assertion)
      [] fn.t = "function" /\ fn.name = "json_schema" -> assertJsonSchema(resp, assertion)
      [] fn.t = "function" /\ fn.name = "llm_judge" ->
           assertLlmJudge(resp, assertion, e, judgeProvider, judgeModel)
      [] fn.t = "function" /\ fn.name = "semantic_similarity" ->
           assertSemanticSimilarity(resp, assertion, e, judgeProvider, judgeModel)
      [] fn.t = "function" /\ fn.name = "sentiment" ->
           assertSentiment(resp, assertion, e, judgeProvider, judgeModel)
      [] fn.t = "function" /\ fn.name = "constructor" -> Return(resp)
      [] fn.t = "function" /\ fn.name = "toString" -> Return(Str(TextObjectUndefined))
      [] fn.t = "function" /\ fn.name \in {"hasOwnProperty", "valueOf"} ->
           Throw("TypeError: Cannot convert undefined or null to object")

\* runAssertion(response, assertion) up to the first await: a completion (the promise
\* settles at once) or the judge fetch it waits for.
runAssertion(resp, assertion, e, judgeProvider, judgeModel) ==
    LET fn == RegistryLookup(assertion.type)
    IN IF ~Truthy(fn)
       THEN Return([passed |-> FALSE,
                    message |-> Msg("unknown assertion type: \"${assertion.type}\"",
                                    <<assertion.type>>)])
       ELSE CallEvaluator(fn, resp, assertion, e, judgeProvider, judgeModel)

\* Whether runAssertion hands the assertion to an evaluator function.
CallsEvaluator(assertion) == Truthy(RegistryLookup(assertion.type))

(***************************************************************************)
(* providers/demo.ts                                                       *)
(***************************************************************************)
KwShip ==
    <<"s","h","i","p">>
KwDeliver ==
    <<"d","e","l","i","v","e","r">>
KwTracking ==
    <<"t","r","a","c","k","i","n","g">>
KwHello ==
    <<"h","e","l","l","o">>
KwHi ==
    <<" ","h","i"," ">>
KwHelp ==
    <<"h","e","l","p">>
KwRefund ==
    <<"r","e","f","u","n","d">>
KwReturn ==
    <<"r","e","t","u","r","n">>
KwMoneyBack ==
    <<"m","o","n","e","y"," ","b","a","c","k">>
KwBroken ==
    <<"b","r","o","k","e","n">>
KwError ==
    <<"e","r","r","o","r">>
KwNotWorking ==
    <<"n","o","t"," ","w","o","r","k","i","n","g">>
KwBug ==
    <<"b","u","g">>
KwPrice ==
    <<"p","r","i","c","e">>
KwCost ==
    <<"c","o","s","t">>
KwPlan ==
    <<"p","l","a","n">>
KwWeather ==
    <<"w","e","a","t","h","e","r">>
KwSearch ==
    <<"s","e","a","r","c","h">>
KwLookUp ==
    <<"l","o","o","k"," ","u","p">>
ShippingContent ==
    <<"S","t","a","n","d","a","r","d"," ","s","h","i","p","p","i","n","g"," ","t","a","k","e",
    "s"," ","5","-","7"," ","b","u","s","i","n","e","s","s"," ","d","a","y","s","."," ","E","x",
    "p","r","e","s","s"," ","s","h","i","p","p","i","n","g"," ","(","2","-","3"," ","d","a","y",
    "s",")"," ","i","s"," ","a","v","a","i","l","a","b","l","e"," ","f","o","r"," ","$","9",".",
    "9","9","."," ","Y","o","u"," ","c","a","n"," ","t","r","a","c","k"," ","y","o","u","r"," ",
    "o","r","d","e","r"," ","a","t"," ","a","c","m","e",".","c","o","m","/","t","r","a","c","k",
    " ","w","i","t","h"," ","y","o","u","r"," ","o","r","d","e","r"," ","n","u","m","b","e","r",
    ".">>
GreetingContent ==
    <<"H","e","l","l","o","!"," ","I","'","m"," ","a"," ","c","u","s","t","o","m","e","r"," ",
    "s","u","p","p","o","r","t"," ","a","g","e","n","t"," ","f","o","r"," ","A","c","m","e"," ",
    "C","o","r","p","."," ","I"," ","c","a","n"," ","h","e","l","p"," ","y","o","u"," ","w","i",
    "t","h"," ","o","r","d","e","r","s",","," ","r","e","t","u","r","n","s",","," ","a","n","d",
    " ","g","e","n","e","r","a","l"," ","q","u","e","s","t","i","o","n","s","."," ","H","o","w",
    " ","c","a","n"," ","I"," ","a","s","s","i","s","t"," ","y","o","u"," ","t","o","d","a","y",
    "?">>
RefundContent ==
    <<"I"," ","u","n","d","e","r","s","t","a","n","d"," ","y","o","u","'","d"," ","l","i","k",
    "e"," ","a"," ","r","e","f","u","n","d","."," ","I"," ","c","a","n"," ","p","r","o","c","e",
    "s","s"," ","t","h","a","t"," ","f","o","r"," ","y","o","u","."," ","O","u","r"," ","r","e",
    "f","u","n","d"," ","p","o","l","i","c","y"," ","a","l","l","o","w","s"," ","r","e","t","u",
    "r","n","s"," ","w","i","t","h","i","n"," ","3","0"," ","d","a","y","s"," ","o","f"," ","p",
    "u","r","c","h","a","s","e","."," ","C","o","u","l","d"," ","y","o","u"," ","p","l","e","a",
    "s","e"," ","p","r","o","v","i","d","e"," ","y","o","u","r"," ","o","r","d","e","r"," ","n",
    "u","m","b","e","r"," ","s","o"," ","I"," ","c","a","n"," ","l","o","o","k"," ","i","n","t",
    "o"," ","t","h","i","s"," ","f","o","r"," ","y","o","u","?">>
TechSupportContent ==
    <<"I","'","m"," ","s","o","r","r","y"," ","t","o"," ","h","e","a","r"," ","y","o","u","'",
    "r","e"," ","e","x","p","e","r","i","e","n","c","i","n","g"," ","i","s","s","u","e","s",".",
    " ","L","e","t"," ","m","e"," ","h","e","l","p"," ","t","r","o","u","b","l","e","s","h","o",
    "o","t","."," ","C","o","u","l","d"," ","y","o","u"," ","t","e","l","l"," ","m","e",":",
    "\n","1","."," ","W","h","a","t"," ","p","r","o","d","u","c","t"," ","a","r","e"," ","y",
    "o","u"," ","u","s","i","n","g","?","\n","2","."," ","W","h","a","t"," ","e","r","r","o",
    "r"," ","m","e","s","s","a","g","e"," ","a","r","e"," ","y","o","u"," ","s","e","e","i","n",
    "g","?","\n","3","."," ","W","h","e","n"," ","d","i","d"," ","t","h","i","s"," ","s","t",
    "a","r","t"," ","h","a","p","p","e","n","i","n","g","?","\n","\n","T","h","i","s"," ","w",
    "i","l","l"," ","h","e","l","p"," ","m","e"," ","d","i","a","g","n","o","s","e"," ","t","h",
    "e"," ","p","r","o","b","l","e","m",".">>
PricingContent ==
    <<"H","e","r","e"," ","a","r","e"," ","o","u","r"," ","c","u","r","r","e","n","t"," ","p",
    "l","a","n","s",":","\n","-"," ","*","*","B","a","s","i","c","*","*",":"," ","$","9","/",
    "m","o","n","t","h"," ","(","1"," ","u","s","e","r",","," ","1","0","G","B"," ","s","t","o",
    "r","a","g","e",")","\n","-"," ","*","*","P","r","o","*","*",":"," ","$","2","9","/","m",
    "o","n","t","h"," ","(","5"," ","u","s","e","r","s",","," ","1","0","0","G","B"," ","s","t",
    "o","r","a","g","e",")","\n","-"," ","*","*","E","n","t","e","r","p","r","i","s","e","*",
    "*",":"," ","C","o","n","t","a","c","t"," ","s","a","l","e","s"," ","f","o","r"," ","c","u",
    "s","t","o","m"," ","p","r","i","c","i","n","g","\n","\n","A","l","l"," ","p","l","a","n",
    "s"," ","i","n","c","l","u","d","e"," ","a"," ","1","4","-","d","a","y"," ","f","r","e","e",
    " ","t","r","i","a","l","."," ","W","o","u","l","d"," ","y","o","u"," ","l","i","k","e"," ",
    "t","o"," ","s","i","g","n"," ","u","p","?">>
DefaultContent ==
    <<"T","h","a","n","k"," ","y","o","u"," ","f","o","r"," ","r","e","a","c","h","i","n","g",
    " ","o","u","t"," ","t","o"," ","A","c","m","e"," ","C","o","r","p"," ","s","u","p","p","o",
    "r","t","."," ","I","'","m"," ","h","e","r","e"," ","t","o"," ","h","e","l","p"," ","w","i",
    "t","h"," ","a","n","y"," ","q","u","e","s","t","i","o","n","s"," ","a","b","o","u","t"," ",
    "o","u","r"," ","p","r","o","d","u","c","t","s"," ","a","n","d"," ","s","e","r","v","i","c",
    "e","s","."," ","C","o","u","l","d"," ","y","o","u"," ","p","r","o","v","i","d","e"," ","m",
    "o","r","e"," ","d","e","t","a","i","l","s"," ","a","b","o","u","t"," ","w","h","a","t"," ",
    "y","o","u"," ","n","e","e","d"," ","a","s","s","i","s","t","a","n","c","e"," ","w","i","t",
    "h","?">>

DemoUsage(p, c) == [prompt_tokens |-> p, completion_tokens |-> c]

\* Variant of the demo provider that checks the greeting keywords before the
\* shipping ones.
DemoChatGreetingFirst(request) ==
    LET prompt == ToLowerCase(request.prompt)
        has(kw) == Includes(prompt, kw)
        text(content, p, c) == [content |-> content, model |-> "demo-model",
                                tool_calls |-> Undefined, usage |-> DemoUsage(p, c)]
    IN IF has(KwHello) \/ has(KwHi) \/ has(KwHelp)
       THEN text(GreetingContent, 20, 35)
       ELSE IF has(KwShip) \/ has(KwDeliver) \/ has(KwTracking)
       THEN text(ShippingContent, 20, 40)
       ELSE IF has(KwRefund) \/ has(KwReturn) \/ has(KwMoneyBack)
       THEN text(RefundContent, 25, 45)
       ELSE IF has(KwBroken) \/ has(KwError) \/ has(KwNotWorking) \/ has(KwBug)
       THEN text(TechSupportContent, 30, 50)
       ELSE IF has(KwPrice) \/ has(KwCost) \/ has(KwPlan)
       THEN text(PricingContent, 20, 55)
       ELSE IF /\ request.tools.t = "array"
               /\ Len(request.tools.v) > 0
               /\ (has(KwWeather) \/ has(KwSearch) \/ has(KwLookUp))
       THEN [content |-> <<>>, model |-> "demo-model",
             tool_calls |-> Arr(<<[name |-> request.tools.v[1].name,
                                   arguments |-> Obj(<< <<"query", Str(prompt)>> >>)]>>),
             usage |-> DemoUsage(30, 20)]
       ELSE text(DefaultContent, 15, 35)

\* createDemoProvider().chat(request): the text branches return no tool_calls member.
DemoChat(request) ==
    LET prompt == ToLowerCase(request.prompt)
        has(kw) == Includes(prompt, kw)
        text(content, p, c) == [content |-> content, model |-> "demo-model",
                                tool_calls |-> Undefined, usage |-> DemoUsage(p, c)]
    IN IF has(KwShip) \/ has(KwDeliver) \/ has(KwTracking)
       THEN text(ShippingContent, 20, 40)
       ELSE IF has(KwHello) \/ has(KwHi) \/ has(KwHelp)
       THEN text(GreetingContent, 20, 35)
       ELSE IF has(KwRefund) \/ has(KwReturn) \/ has(KwMoneyBack)
       THEN text(RefundContent, 25, 45)
       ELSE IF has(KwBroken) \/ has(KwError) \/ has(KwNotWorking) \/ has(KwBug)
       THEN text(TechSupportContent, 30, 50)
       ELSE IF has(KwPrice) \/ has(KwCost) \/ has(KwPlan)
       THEN text(PricingContent, 20, 55)
       ELSE IF /\ request.tools.t = "array"
               /\ Len(request.tools.v) > 0
               /\ (has(KwWeather) \/ has(KwSearch) \/ has(KwLookUp))
       THEN [content |-> <<>>, model |-> "demo-model",
             tool_calls |-> Arr(<<[name |-> request.tools.v[1].name,
                                   arguments |-> Obj(<< <<"query", Str(prompt)>> >>)]>>),
             usage |-> DemoUsage(30, 20)]
       ELSE text(DefaultContent, 15, 35)

(***************************************************************************)
(* providers/openai.ts, providers/anthropic.ts                             *)
(***************************************************************************)
\* What client.chat.completions.create settles to: a rejection, or a completion whose
\* first choice has a content (string or null) and optional tool calls whose
\* arguments are JSON text.
OpenAICompletions ==
    { [kind |-> "reject", error |-> "Connection error."],
      [kind |-> "completion", content |-> Str(TextHelloWorld), tool_calls |-> Undefined],
      [kind |-> "completion", content |-> Str(TextNameNumber), tool_calls |-> Undefined],
      [kind |-> "completion", content |-> Null,
       tool_calls |-> Arr(<<[name |-> "get_weather", arguments |-> TextToolArgs]>>)],
      [kind |-> "completion", content |-> Null,
       tool_calls |-> Arr(<<[name |-> "get_weather", arguments |-> TextBadToolArgs]>>)] }

\* createOpenAIProvider().chat, from the point the SDK call settles.
OpenAIChat(completion) ==
    IF completion.kind = "reject" THEN Throw(completion.error)
    ELSE LET content == IF completion.content.t \in {"null", "undefined"} THEN <<>>
                        ELSE completion.content.v
             calls == IF completion.tool_calls.t \in {"null", "undefined"} THEN <<>>
                      ELSE completion.tool_calls.v
             parsed == [i \in 1..Len(calls) |-> JSONParse(calls[i].arguments)]
         IN IF \E i \in 1..Len(calls) : parsed[i].kind = "throw"
            THEN Throw("SyntaxError: Unexpected end of JSON input")
            ELSE Return([content |-> content,
                         tool_calls |-> Arr([i \in 1..Len(calls) |->
                                               [name |-> calls[i].name,
                                                arguments |-> parsed[i].value]]),
                         usage |-> Undefined])

\* What client.messages.create settles to: a rejection, or a message whose content
\* is a list of text and tool_use blocks.
AnthropicMessages ==
    { [kind |-> "reject", error |-> "Connection error."],
      [kind |-> "message",
       content |-> <<[type |-> "text", text |-> TextHelloWorld],
                     [type |-> "tool_use", name |-> "get_weather",
                      input |-> Obj(<< <<"city", Str(TextLondon)>> >>)]>>] }

RECURSIVE ConcatText(_)
ConcatText(blocks) ==
    IF blocks = <<>> THEN <<>>
    ELSE (IF Head(blocks).type = "text" THEN Head(blocks).text ELSE <<>>)
         \o ConcatText(Tail(blocks))

RECURSIVE ToolUses(_)
ToolUses(blocks) ==
    IF blocks = <<>> THEN <<>>
    ELSE (IF Head(blocks).type = "tool_use"
          THEN <<[name |-> Head(blocks).name, arguments |-> Head(blocks).input]>>
          ELSE <<>>)
         \o ToolUses(Tail(blocks))

\* createAnthropicProvider().chat, from the point the SDK call settles.
AnthropicChat(message) ==
    IF message.kind = "reject" THEN Throw(message.error)
    ELSE Return([content |-> ConcatText(message.content),
                 tool_calls |-> Arr(ToolUses(message.content)),
                 usage |-> Undefined])

(***************************************************************************)
(* providers/http.ts                                                       *)
(***************************************************************************)
\* obj[key] on an object literal: an own member, or what Object.prototype provides.
Member(obj, key) ==
    IF obj.t = "object" /\ \E i \in 1..Len(obj.v) : obj.v[i][1] = key THEN GetProp(obj, key)
    ELSE IF key \in {"constructor", "toString", "hasOwnProperty", "valueOf"}
    THEN [t |-> "function", name |-> key]
    ELSE IF key = "__proto__" THEN Obj(<<>>)
    ELSE Undefined

\* array[key] for the keys the model uses: an index, or length.
ArrayMember(array, key) ==
    LET index == CASE key = "0" -> 1 [] key = "1" -> 2 [] key = "2" -> 3 [] OTHER -> 0
    IN IF key = "length" THEN Num(Len(array.v))
       ELSE IF index \in 1..Len(array.v) THEN array.v[index]
       ELSE Undefined

\* getByPath(obj, path), with path the segments path.split(".") gives.  typeof is
\* "object" for objects, arrays and null; null is excluded by `current == null`.
RECURSIVE getByPath(_, _)
getByPath(obj, path) ==
    IF path = <<>> THEN obj
    ELSE IF obj.t \notin {"object", "array"} THEN Undefined
    ELSE getByPath(IF obj.t = "array" THEN ArrayMember(obj, Head(path))
                   ELSE Member(obj, Head(path)),
                   Tail(path))

Digits == <<"0","1","2","3","4","5","6","7","8","9">>

\* String(n) for a non-negative integer
RECURSIVE NumberToString(_)
NumberToString(n) ==
    IF n < 10 THEN <<Digits[n + 1]>>
    ELSE NumberToString(n \div 10) \o <<Digits[(n % 10) + 1]>>

\* String(val); an array is its items joined by ",", null and undefined items empty.
RECURSIVE String(_)
RECURSIVE JoinItems(_)
JoinItems(items) ==
    IF items = <<>> THEN <<>>
    ELSE (IF Head(items).t \in {"undefined", "null"} THEN <<>> ELSE String(Head(items)))
         \o (IF Len(items) > 1 THEN <<",">> ELSE <<>>) \o JoinItems(Tail(items))

String(val) ==
    CASE val.t = "string" -> val.v
      [] val.t = "number" -> NumberToString(val.v)
      [] val.t = "boolean" -> IF val.v THEN <<"t","r","u","e">> ELSE <<"f","a","l","s","e">>
      [] val.t = "null" -> <<"n","u","l","l">>
      [] val.t = "undefined" -> <<"u","n","d","e","f","i","n","e","d">>
      [] val.t = "array" -> JoinItems(val.v)
      [] val.t = "object" -> TextObjectObject
      [] val.t = "function" ->
           IF val.name = "constructor" THEN TextNativeConstructor ELSE TextNativeToString

\* \w
WordChars ==
    {UpperChars[i] : i \in 1..26} \cup {LowerChars[i] : i \in 1..26}
       \cup {Digits[i] : i \in 1..10} \cup {"_"}

\* The property names a placeholder of the model can spell; any other word names no
\* member of `values`.
KeyNames ==
    << <<TextKeyPrompt, "prompt">>, <<TextKeySystem, "system">>, <<TextKeyModel, "model">>,
       <<TextKeyTemperature, "temperature">>, <<TextKeyMaxTokens, "max_tokens">>,
       <<TextKeyTools, "tools">>, <<TextKeyConstructor, "constructor">>,
       <<TextKeyToString, "toString">> >>

KeyName(chars) ==
    IF \E i \in 1..Len(KeyNames) : KeyNames[i][1] = chars
    THEN KeyNames[CHOOSE i \in 1..Len(KeyNames) : KeyNames[i][1] = chars][2]
    ELSE "(none)"

\* Where the match of /\{\{(\w+)\}\}/ that starts at position i ends, 0 if there is none.
PlaceholderEnd(template, i) ==
    IF i + 1 > Len(template) \/ template[i] # "{" \/ template[i + 1] # "{" THEN 0
    ELSE LET stops == {j \in (i + 2)..Len(template) : template[j] \notin WordChars}
             j == IF stops = {} THEN Len(template) + 1
                  ELSE CHOOSE k \in stops : \A l \in stops : k <= l
         IN IF j > i + 2 /\ j + 1 <= Len(template) /\ template[j] = "}" /\ template[j + 1] = "}"
            THEN j + 1 ELSE 0

\* interpolate(template, values), from position i on
RECURSIVE InterpolateFrom(_, _, _)
InterpolateFrom(template, i, values) ==
    IF i > Len(template) THEN <<>>
    ELSE LET end == PlaceholderEnd(template, i)
         IN IF end = 0 THEN <<template[i]>> \o InterpolateFrom(template, i + 1, values)
            ELSE LET val == Member(values, KeyName(SubSeq(template, i + 2, end - 2)))
                 IN (IF val.t = "undefined" THEN <<>> ELSE String(val))
                    \o InterpolateFrom(template, end + 1, values)

interpolate(template, values) == InterpolateFrom(template, 1, values)

\* interpolateTemplate(template, values)
RECURSIVE interpolateTemplate(_, _)
interpolateTemplate(template, values) ==
    CASE template.t = "string" ->
           IF PlaceholderEnd(template.v, 1) = Len(template.v) /\ template.v # <<>>
           THEN LET val == Member(values, KeyName(SubSeq(template.v, 3, Len(template.v) - 2)))
                IN IF val.t = "undefined" THEN Str(<<>>) ELSE val
           ELSE Str(interpolate(template.v, values))
      [] template.t = "array" ->
           Arr([i \in 1..Len(template.v) |-> interpolateTemplate(template.v[i], values)])
      [] template.t = "object" ->
           Obj([i \in 1..Len(template.v) |->
                   <<template.v[i][1], interpolateTemplate(template.v[i][2], values)>>])
      [] OTHER -> template

\* buildDefaultBody(request)
buildDefaultBody(request) ==
    Obj(<< <<"prompt", Str(request.prompt)>>, <<"model", request.model>>,
           <<"system", request.system>>, <<"temperature", request.temperature>>,
           <<"max_tokens", request.max_tokens>>,
           <<"tools", IF request.tools.t = "array" /\ Len(request.tools.v) > 0
                      THEN request.tools ELSE Undefined>> >>)

\* The body createHttpProvider(options).chat hands to JSON.stringify.
HttpBody(httpOptions, request) ==
    IF Truthy(httpOptions.requestTemplate)
    THEN interpolateTemplate(httpOptions.requestTemplate,
                             Obj(<< <<"prompt", Str(request.prompt)>>,
                                    <<"system", request.system>>,
                                    <<"model", request.model>>,
                                    <<"temperature", request.temperature>>,
                                    <<"max_tokens", request.max_tokens>>,
                                    <<"tools", request.tools>> >>))
    ELSE buildDefaultBody(request)

\* What the fetch of the HTTP adapter settles to.
HttpReplies ==
    { [kind |-> "reject"],
      [kind |-> "response", ok |-> FALSE, status |-> 500,
       json |-> [t |-> "invalid"], text |-> <<>>],
      [kind |-> "response", ok |-> TRUE, status |-> 200,
       json |-> Obj(<< <<"content", Str(TextHelloWorld)>> >>), text |-> <<>>] }

\* createHttpProvider(options).chat, from the point its fetch settles.
HttpChat(httpOptions, reply) ==
    IF reply.kind = "reject" THEN Throw("TypeError: fetch failed")
    ELSE IF ~reply.ok
    THEN ThrowMsg("HTTP provider error: ${response.status} ${response.statusText}${text}",
                  <<reply.status, reply.text>>)
    ELSE IF reply.json.t = "invalid" THEN Throw("SyntaxError: Unexpected token in JSON")
    ELSE LET rawContent == getByPath(reply.json, httpOptions.responsePath)
             toolCalls == GetProp(reply.json, "tool_calls")
         IN Return([content |-> IF rawContent.t = "undefined" THEN <<>>
                                ELSE String(rawContent),
                    tool_calls |-> IF toolCalls.t = "array" THEN toolCalls ELSE Arr(<<>>),
                    usage |-> Undefined])

\* Every outcome provider.chat(request) can settle to.
ChatOutcomes(provider, request) ==
    CASE provider.name = "demo" -> {Return(DemoChat(request))}
      [] provider.name = "openai" -> {OpenAIChat(c) : c \in OpenAICompletions}
      [] provider.name = "anthropic" -> {AnthropicChat(m) : m \in AnthropicMessages}
      [] provider.name = "http" -> {HttpChat(provider.options, r) : r \in HttpReplies}

(***************************************************************************)
(* runner.ts                                                               *)
(***************************************************************************)
\* a || b
OrElse(a, b) == IF Truthy(a) THEN a ELSE b

\* a ?? b
Coalesce(a, b) == IF a.t \in {"undefined", "null"} THEN b ELSE a

\* The SDK constructors called by createOpenAIProvider / createAnthropicProvider are
\* not code of this repository: without a credential they may throw.
SdkConstructorThrows(providerName, e) ==
    IF (providerName = "openai" /\ e.OPENAI_API_KEY = "")
       \/ (providerName = "anthropic" /\ e.ANTHROPIC_API_KEY = "")
    THEN BOOLEAN ELSE {FALSE}

\* getProvider(providerName, baseUrl): every way the call can complete.
getProvider(providerName, baseUrl, e) ==
    CASE providerName.id = "openai" ->
           {IF throws THEN Throw("The OPENAI_API_KEY environment variable is missing or empty")
            ELSE Return([name |-> "openai", baseURL |-> baseUrl]) :
               throws \in SdkConstructorThrows("openai", e)}
      [] providerName.id = "anthropic" ->
           {IF throws THEN Throw("Could not resolve authentication method")
            ELSE Return([name |-> "anthropic"]) :
               throws \in SdkConstructorThrows("anthropic", e)}
      [] OTHER -> {ThrowMsg("Unknown provider: ${providerName}", <<providerName>>)}

\* A request builder that falls back on a falsy setting, as `||` would.
BuildRequestFalsyFallsBack(test, cfg) ==
    [model |-> OrElse(test.model, cfg.defaults.model),
     system |-> test.system,
     prompt |-> test.prompt,
     temperature |-> OrElse(OrElse(test.temperature, cfg.defaults.temperature), Num(0)),
     max_tokens |-> OrElse(OrElse(test.max_tokens, cfg.defaults.max_tokens), Num(500)),
     tools |-> test.tools]

\* The ProviderRequest runTest builds.
BuildRequest(test, cfg) ==
    [model |-> OrElse(test.model, cfg.defaults.model),
     system |-> test.system,
     prompt |-> test.prompt,
     temperature |-> Coalesce(Coalesce(test.temperature, cfg.defaults.temperature), Num(0)),
     max_tokens |-> Coalesce(Coalesce(test.max_tokens, cfg.defaults.max_tokens), Num(500)),
     tools |-> test.tools]

\* options?.providerOverride ?? getProvider(providerName, baseUrl)
ResolveProvider(test, cfg, opts, e) ==
    IF opts.providerOverride # Undefined THEN {Return(opts.providerOverride)}
    ELSE getProvider(OrElse(test.provider, cfg.defaults.provider),
                     OrElse(test.base_url, cfg.defaults.base_url), e)

\* ar.result.passed, as a condition: a result without that member is falsy.
ResultPassed(result) == "passed" \in DOMAIN result /\ result.passed

\* The TestResult of the success path.
SuccessResult(test, ars, resp, opts) ==
    [name |-> test.name,
     passed |-> \A i \in 1..Len(ars) : ResultPassed(ars[i].result),
     assertions |-> ars,
     response |-> IF opts.verbose THEN resp ELSE Undefined,
     error |-> Undefined]

\* A catch block that keeps the assertion results gathered before the throw.
ErrorResultKeepingAssertions(test, err) ==
    [name |-> test.name,
     passed |-> FALSE,
     assertions |-> assertionResults,
     response |-> Undefined,
     error |-> err]

\* The TestResult of the catch block.
ErrorResult(test, err) ==
    [name |-> test.name,
     passed |-> FALSE,
     assertions |-> <<>>,
     response |-> Undefined,
     error |-> err]

\* The RunResult runAllTests returns.
CountPassed(rs) == Cardinality({i \in 1..Len(rs) : rs[i].passed})

BuildRunResult(rs) ==
    [results |-> rs,
     total |-> Len(rs),
     passed |-> CountPassed(rs),
     failed |-> Len(rs) - CountPassed(rs)]

NoRunResult == [results |-> <<>>, total |-> 0, passed |-> 0, failed |-> 0]
NoFetch == [backend |-> "", url |-> "", model |-> "", key |-> "", type |-> ""]
NoResponse == [content |-> <<>>, tool_calls |-> Undefined, usage |-> Undefined]
NoCall == [fn |-> "none"]
NoResult == <<>>

CurrentTest == config.tests[idx]

\* A runner that stops the suite at the first test case that ended in an error.
ReturnTestResultStopOnError(result) ==
    /\ results' = Append(results, result)
    /\ IF idx < Len(config.tests) /\ result.error = Undefined
       THEN /\ idx' = idx + 1
            /\ pc' = "start"
            /\ runResult' = runResult
       ELSE /\ idx' = idx
            /\ pc' = "done"
            /\ runResult' = BuildRunResult(Append(results, result))
    /\ ai' = 1
    /\ assertionResults' = <<>>
    /\ response' = NoResponse
    /\ pending' = NoFetch

\* runTest returns `result`: runAllTests pushes it and either goes on to the next
\* test case or builds the RunResult.
ReturnTestResult(result) ==
    /\ results' = Append(results, result)
    /\ IF idx < Len(config.tests)
       THEN /\ idx' = idx + 1
            /\ pc' = "start"
            /\ runResult' = runResult
       ELSE /\ idx' = idx
            /\ pc' = "done"
            /\ runResult' = BuildRunResult(Append(results, result))
    /\ ai' = 1
    /\ assertionResults' = <<>>
    /\ response' = NoResponse
    /\ pending' = NoFetch

\* A runner that issues the provider call of the next test case together with the
\* current one.
StartTestEager ==
    /\ pc = "start"
    /\ \E p \in ResolveProvider(CurrentTest, config, options, env) :
          IF p.kind = "throw"
          THEN /\ providerLog' = Append(providerLog, [kind |-> "throw"])
               /\ ReturnTestResult(ErrorResult(CurrentTest, p.error))
               /\ UNCHANGED <<chatLog, chatInFlight>>
          ELSE LET call(t) == [test |-> t, provider |-> p.value,
                               request |-> BuildRequest(config.tests[t], config),
                               outcome |-> [kind |-> "pending"]]
               IN /\ providerLog' = Append(providerLog, [kind |-> "return"])
                  /\ chatLog' = IF idx < Len(config.tests)
                                THEN <<call(idx + 1), call(idx)>> \o chatLog
                                ELSE Append(chatLog, call(idx))
                  /\ chatInFlight' = chatInFlight + (IF idx < Len(config.tests) THEN 2 ELSE 1)
                  /\ pc' = "chat"
                  /\ UNCHANGED <<idx, ai, response, assertionResults, results, runResult,
                                 pending>>
    /\ UNCHANGED <<unitCall, unitResult, config, options, env, JUDGE_PROVIDER, JUDGE_MODEL, judgeLog,
                   judgeInFlight, evalLog>>

\* runAllTests calls runTest for the next test case: runTest resolves the provider,
\* builds the request and issues provider.chat; a throw on the way is caught.
StartTest ==
    /\ pc = "start"
    /\ \E p \in ResolveProvider(CurrentTest, config, options, env) :
          IF p.kind = "throw"
          THEN /\ providerLog' = Append(providerLog, [kind |-> "throw"])
               /\ ReturnTestResult(ErrorResult(CurrentTest, p.error))
               /\ UNCHANGED <<chatLog, chatInFlight>>
          ELSE /\ providerLog' = Append(providerLog, [kind |-> "return"])
               /\ chatLog' = Append(chatLog, [test |-> idx, provider |-> p.value,
                                              request |-> BuildRequest(CurrentTest, config),
                                              outcome |-> [kind |-> "pending"]])
               /\ chatInFlight' = chatInFlight + 1
               /\ pc' = "chat"
               /\ UNCHANGED <<idx, ai, response, assertionResults, results, runResult,
                              pending>>
    /\ UNCHANGED <<unitCall, unitResult, config, options, env, JUDGE_PROVIDER, JUDGE_MODEL, judgeLog,
                   judgeInFlight, evalLog>>

\* A runner whose list of assertion results is shared by the test cases of the suite:
\* the results of the test case before are still on it.
PushResultSharedList(result) ==
    LET earlier == IF assertionResults = <<>> /\ results # <<>>
                   THEN results[Len(results)].assertions ELSE assertionResults
        ars == Append(earlier, [assertion |-> CurrentTest.assertions[ai],
                                result |-> result])
    IN IF ai < Len(CurrentTest.assertions)
       THEN /\ assertionResults' = ars
            /\ ai' = ai + 1
            /\ pc' = "assert"
            /\ pending' = NoFetch
            /\ UNCHANGED <<idx, response, results, runResult>>
       ELSE ReturnTestResult(SuccessResult(CurrentTest, ars, response, options))

\* One more AssertionResult is pushed; after the last one runTest returns.
PushResult(result) ==
    LET ars == Append(assertionResults, [assertion |-> CurrentTest.assertions[ai],
                                         result |-> result])
    IN IF ai < Len(CurrentTest.assertions)
       THEN /\ assertionResults' = ars
            /\ ai' = ai + 1
            /\ pc' = "assert"
            /\ pending' = NoFetch
            /\ UNCHANGED <<idx, response, results, runResult>>
       ELSE ReturnTestResult(SuccessResult(CurrentTest, ars, response, options))

\* A runner that calls the provider a second time when the first call fails.
ChatSettledRetry ==
    /\ pc = "chat"
    /\ \E c \in ChatOutcomes(chatLog[Len(chatLog)].provider, chatLog[Len(chatLog)].request) :
          LET settled == [chatLog EXCEPT ![Len(chatLog)].outcome =
                             IF c.kind = "throw" THEN c ELSE [kind |-> "return"]]
              first == \A i \in 1..(Len(chatLog) - 1) : chatLog[i].test # idx
          IN IF c.kind = "throw" /\ first
             THEN /\ chatLog' = Append(settled, [chatLog[Len(chatLog)] EXCEPT
                                                   !.outcome = [kind |-> "pending"]])
                  /\ UNCHANGED <<pc, idx, ai, response, assertionResults, results, runResult,
                                 pending, chatInFlight>>
             ELSE /\ chatLog' = settled
                  /\ chatInFlight' = chatInFlight - 1
                  /\ IF c.kind = "throw"
                     THEN ReturnTestResult(ErrorResult(CurrentTest, c.error))
                     ELSE /\ response' = c.value
                          /\ assertionResults' = <<>>
                          /\ ai' = 1
                          /\ pc' = "assert"
                          /\ UNCHANGED <<idx, results, runResult, pending>>
    /\ UNCHANGED <<unitCall, unitResult, config, options, env, JUDGE_PROVIDER, JUDGE_MODEL, providerLog, judgeLog,
                   judgeInFlight, evalLog>>

\* A runner that evaluates the assertions against an empty response when the provider
\* call fails.
ChatSettledEvaluatingAnyway ==
    /\ pc = "chat"
    /\ \E c \in ChatOutcomes(chatLog[Len(chatLog)].provider, chatLog[Len(chatLog)].request) :
          /\ chatLog' = [chatLog EXCEPT ![Len(chatLog)].outcome =
                             IF c.kind = "throw" THEN c ELSE [kind |-> "return"]]
          /\ response' = IF c.kind = "throw" THEN NoResponse ELSE c.value
          /\ assertionResults' = <<>>
          /\ ai' = 1
          /\ pc' = "assert"
          /\ UNCHANGED <<idx, results, runResult, pending>>
    /\ chatInFlight' = chatInFlight - 1
    /\ UNCHANGED <<unitCall, unitResult, config, options, env, JUDGE_PROVIDER, JUDGE_MODEL, providerLog, judgeLog,
                   judgeInFlight, evalLog>>

\* provider.chat settles: a rejection is caught, a response starts the assertion loop.
ChatSettled ==
    /\ pc = "chat"
    /\ \E c \in ChatOutcomes(chatLog[Len(chatLog)].provider, chatLog[Len(chatLog)].request) :
          /\ chatLog' = [chatLog EXCEPT ![Len(chatLog)].outcome =
                             IF c.kind = "throw" THEN c ELSE [kind |-> "return"]]
          /\ IF c.kind = "throw"
             THEN ReturnTestResult(ErrorResult(CurrentTest, c.error))
             ELSE IF Len(CurrentTest.assertions) = 0
             THEN ReturnTestResult(SuccessResult(CurrentTest, <<>>, c.value, options))
             ELSE /\ response' = c.value
                  /\ assertionResults' = <<>>
                  /\ ai' = 1
                  /\ pc' = "assert"
                  /\ UNCHANGED <<idx, results, runResult, pending>>
    /\ chatInFlight' = chatInFlight - 1
    /\ UNCHANGED <<unitCall, unitResult, config, options, env, JUDGE_PROVIDER, JUDGE_MODEL, providerLog, judgeLog,
                   judgeInFlight, evalLog>>

\* runTest calls runAssertion for the next assertion: it settles at once, or a judge
\* evaluator issues its fetch and runTest waits for it.
EvalAssertion ==
    /\ pc = "assert"
    /\ LET assertion == CurrentTest.assertions[ai]
           c == runAssertion(response, assertion, env, JUDGE_PROVIDER, JUDGE_MODEL)
       IN /\ evalLog' = Append(evalLog, [test |-> idx, assertion |-> ai,
                                         called |-> CallsEvaluator(assertion),
                                         fetched |-> c.kind = "await",
                                         completion |-> c])
          /\ judgeLog' = IF assertion.type \in JudgeTypes /\ Truthy(assertion.value)
                         THEN LET j == callJudge(env, JUDGE_PROVIDER, JUDGE_MODEL)
                                  called == j.kind = "await"
                              IN Append(judgeLog,
                                        [test |-> idx, assertion |-> ai, env |-> env,
                                         url |-> IF called THEN j.fetch.url ELSE "",
                                         model |-> IF called THEN j.fetch.model ELSE "",
                                         error |-> IF called THEN ""
                                                   ELSE j.value.reasoning.text])
                         ELSE judgeLog
          /\ CASE c.kind = "await" ->
                    /\ pending' = c.fetch
                    /\ judgeInFlight' = judgeInFlight + 1
                    /\ pc' = "judge"
                    /\ UNCHANGED <<idx, ai, response, assertionResults, results, runResult>>
               [] c.kind = "throw" ->
                    /\ ReturnTestResult(ErrorResult(CurrentTest, c.error))
                    /\ UNCHANGED judgeInFlight
               [] c.kind = "return" ->
                    /\ PushResult(c.value)
                    /\ UNCHANGED judgeInFlight
    /\ UNCHANGED <<unitCall, unitResult, config, options, env, JUDGE_PROVIDER, JUDGE_MODEL, providerLog, chatLog,
                   chatInFlight>>

\* What the fetch of a judge call settles to: a rejection, an error status, a chat
\* completion body, or a messages body.
JudgeReplies ==
    { [kind |-> "reject"],
      [kind |-> "response", ok |-> FALSE, status |-> 429,
       json |-> [t |-> "invalid"], text |-> TextRateLimited],
      [kind |-> "response", ok |-> TRUE, status |-> 200, text |-> <<>>,
       json |-> Obj(<< <<"choices",
                         Arr(<<Obj(<< <<"message",
                                        Obj(<< <<"content", Str(TextVerdictPass)>> >>)>> >>)>>)>> >>)],
      [kind |-> "response", ok |-> TRUE, status |-> 200, text |-> <<>>,
       json |-> Obj(<< <<"content",
                         Arr(<<Obj(<< <<"type", Id("text")>>,
                                      <<"text", Str(TextVerdictFail)>> >>)>>)>> >>)] }

\* The fetch of the judge call settles and the evaluator finishes: its result is
\* pushed, or its throw is caught by runTest.
FetchSettled ==
    /\ pc = "judge"
    /\ \E reply \in JudgeReplies :
          LET c == JudgeSettled(pending, reply)
          IN /\ evalLog' = [evalLog EXCEPT ![Len(evalLog)].completion = c]
             /\ IF c.kind = "throw"
                THEN ReturnTestResult(ErrorResult(CurrentTest, c.error))
                ELSE PushResult(c.value)
    /\ judgeInFlight' = judgeInFlight - 1
    /\ UNCHANGED <<unitCall, unitResult, config, options, env, JUDGE_PROVIDER, JUDGE_MODEL, providerLog, chatLog,
                   chatInFlight, judgeLog>>

(***************************************************************************)
(* Configurations: what loadConfig hands to runAllTests.                   *)
(***************************************************************************)
NoFields ==
    [type |-> "", value |-> Undefined, pattern |-> Undefined, name |-> Undefined,
     contains |-> Undefined, schema |-> Undefined]

WithValue(type, value) == [NoFields EXCEPT !.type = type, !.value = value]
WithPattern(type, pattern) == [NoFields EXCEPT !.type = type, !.pattern = pattern]
WithName(type, name) == [NoFields EXCEPT !.type = type, !.name = name]
Bare(type) == [NoFields EXCEPT !.type = type]

ParisArgs == Obj(<< <<"city", Str(TextParis)>> >>)
NameIsString ==
    Obj(<< <<"type", Id("object")>>,
           <<"properties", Obj(<< <<"name", Obj(<< <<"type", Id("string")>> >>)>> >>)>> >>)

\* Assertions with the field their type needs.
WellFormed ==
    { WithValue("contains", Str(TextRefund)),
      WithValue("contains", Str(TextOrderNumber)),
      WithValue("contains", Str(TextTrackingNumber)),
      WithValue("contains", Str(TextHello)),
      WithValue("not_contains", Str(TextHello)),
      WithPattern("regex", Str(TextAlternatives)),
      WithValue("starts_with", Str(TextHello)),
      WithValue("ends_with", Str(TextHello)),
      WithValue("max_tokens", Num(100)),
      WithValue("min_tokens", Num(3)),
      WithName("tool_called", Id("get_weather")),
      [NoFields EXCEPT !.type = "tool_args", !.name = Id("get_weather"),
                       !.contains = ParisArgs],
      Bare("json_valid"),
      [NoFields EXCEPT !.type = "json_schema", !.schema = NameIsString],
      WithValue("llm_judge", Str(TextCriterion)),
      WithValue("semantic_similarity", Str(TextHello)),
      WithValue("sentiment", Str(TextHello)) }

\* Assertions that lack the field their type needs, or carry one that cannot be used.
Malformed ==
    { Bare(type) : type \in RegisteredTypes \ {"json_valid"} }
    \cup { WithName("tool_args", Id("get_weather")),
           WithPattern("regex", Str(TextOpenParen)),
           WithValue("contains", Num(7)),
           WithValue("llm_judge", Str(<<>>)) }

\* Assertions whose type is not a key of the registry.
Unregistered ==
    { Bare(type) : type \in {"nonexistent", "constructor", "toString",
                             "hasOwnProperty", "valueOf", "__proto__"} }

AssertionPool == WellFormed \cup Malformed \cup Unregistered

\* The assertions that test cases combine.
CorePool ==
    { WithValue("contains", Str(TextRefund)),
      WithValue("contains", Str(TextOrderNumber)),
      WithValue("contains", Str(TextTrackingNumber)),
      Bare("contains"),
      WithName("tool_called", Id("get_weather")),
      WithValue("llm_judge", Str(TextCriterion)),
      Bare("nonexistent"),
      Bare("constructor") }

\* validateConfig admits a test case only with at least one assertion.
SeqsUpTo(S, n) == UNION { [1..k -> S] : k \in 1..n }

TestCase(name, prompt, provider, tools, assertions) ==
    [name |-> name, prompt |-> prompt, provider |-> provider, model |-> Undefined,
     base_url |-> Undefined, system |-> Undefined, temperature |-> Undefined,
     max_tokens |-> Undefined, tools |-> tools, assertions |-> assertions]

Defaults(provider) ==
    [provider |-> Id(provider), model |-> Id("test-model"), base_url |-> Undefined,
     temperature |-> Num(0), max_tokens |-> Undefined]

WeatherTool == Arr(<<[name |-> "get_weather"]>>)

DemoProvider == [name |-> "demo"]
HttpProvider ==
    [name |-> "http", options |-> [requestTemplate |-> Undefined, responsePath |-> <<"content">>]]

Env(openaiKey, anthropicKey, judgeProvider, judgeModel) ==
    [OPENAI_API_KEY |-> openaiKey, ANTHROPIC_API_KEY |-> anthropicKey,
     AGENTCI_JUDGE_PROVIDER |-> judgeProvider, AGENTCI_JUDGE_MODEL |-> judgeModel]

BothKeys == Env("sk-openai", "sk-ant", <<>>, "")
NoKeys == Env("", "", <<>>, "")

\* One test case with any single assertion, or with a list of the combined ones.
SingleSuites ==
    { <<TestCase("t1", prompt[1], Undefined, prompt[2], assertions)>> :
        prompt \in {<<PromptRefund, Undefined>>, <<PromptWeather, WeatherTool>>},
        assertions \in SeqsUpTo(CorePool, MaxAssertions)
                         \cup {<<a>> : a \in AssertionPool} }

SingleInputs ==
    { [config |-> [defaults |-> Defaults("openai"), tests |-> tests],
       options |-> [verbose |-> verbose, providerOverride |-> override],
       env |-> e] :
        tests \in SingleSuites, verbose \in BOOLEAN,
        override \in {Undefined, DemoProvider, HttpProvider}, e \in {BothKeys, NoKeys} }

\* Suites of several test cases.
SuitePool ==
    { TestCase("greets", PromptRefund, Undefined, Undefined,
               <<WithValue("contains", Str(TextHello))>>),
      TestCase("refund", PromptRefund, Undefined, Undefined,
               <<WithValue("contains", Str(TextRefund)),
                 WithValue("contains", Str(TextTrackingNumber))>>),
      TestCase("custom", PromptRefund, Id("http"), Undefined,
               <<WithValue("contains", Str(TextHello))>>) }

Suites == UNION { [1..n -> SuitePool] : n \in 1..MaxTests }

SuiteInputs ==
    { [config |-> [defaults |-> Defaults("anthropic"), tests |-> tests],
       options |-> [verbose |-> FALSE, providerOverride |-> override],
       env |-> BothKeys] :
        tests \in Suites, override \in {Undefined, DemoProvider} }

\* The state in which runAllTests is called with `input`; the judge module has been
\* loaded and has read its two settings from the environment.
Start(input) ==
    /\ config = input.config
    /\ options = input.options
    /\ env = input.env
    /\ JUDGE_PROVIDER = input.env.AGENTCI_JUDGE_PROVIDER
    /\ JUDGE_MODEL = input.env.AGENTCI_JUDGE_MODEL
    /\ pc = "start"
    /\ idx = 1
    /\ ai = 1
    /\ response = NoResponse
    /\ assertionResults = <<>>
    /\ results = <<>>
    /\ runResult = NoRunResult
    /\ pending = NoFetch
    /\ providerLog = <<>>
    /\ chatLog = <<>>
    /\ chatInFlight = 0
    /\ judgeLog = <<>>
    /\ judgeInFlight = 0
    /\ evalLog = <<>>
    /\ unitCall = NoCall
    /\ unitResult = NoResult

Init == \E input \in SingleInputs \cup SuiteInputs : Start(input)

Next ==
    \/ StartTest
    \/ ChatSettled
    \/ EvalAssertion
    \/ FetchSettled

Spec == Init /\ [][Next]_vars

(***************************************************************************)
(* Runs that evaluate judge assertions while the host changes the process  *)
(* environment, as the judge tests do between their calls.                 *)
(***************************************************************************)
Envs ==
    { Env(openaiKey, anthropicKey, judgeProvider, judgeModel) :
        openaiKey \in {"", "sk-openai"}, anthropicKey \in {"", "sk-ant"},
        judgeProvider \in {<<>>, TextOpenai, TextAnthropic},
        judgeModel \in {"", "judge-model"} }

JudgeSuites ==
    { <<TestCase("judged", PromptRefund, Undefined, Undefined, assertions)>> :
        assertions \in { <<WithValue("llm_judge", Str(TextCriterion))>>,
                         <<Bare("sentiment")>>,
                         <<WithValue("llm_judge", Str(TextCriterion)),
                           WithValue("semantic_similarity", Str(TextHello))>> } }

JudgeInputs ==
    { [config |-> [defaults |-> Defaults("openai"), tests |-> tests],
       options |-> [verbose |-> FALSE, providerOverride |-> DemoProvider],
       env |-> e] :
        tests \in JudgeSuites, e \in Envs }

InitJudge == \E input \in JudgeInputs : Start(input)

\* process.env.X = value / delete process.env.X, for one of the four variables, while
\* the run is under way (nothing reads the environment once runAllTests has returned).
SetEnv ==
    /\ pc # "done"
    /\ \E e \in Envs :
          /\ Cardinality({k \in DOMAIN env : e[k] # env[k]}) = 1
          /\ env' = e
    /\ UNCHANGED <<unitCall, unitResult, config, options, JUDGE_PROVIDER, JUDGE_MODEL, pc, idx, ai, response,
                   assertionResults, results, runResult, pending, providerLog, chatLog,
                   chatInFlight, judgeLog, judgeInFlight, evalLog>>

NextJudge ==
    \/ Next
    \/ SetEnv

SpecJudge == InitJudge /\ [][NextJudge]_vars

(***************************************************************************)
(* config.ts: validateConfig, and the runs of a suite that loadConfig has  *)
(* parsed from a file and validated before runAllTests is called.          *)
(***************************************************************************)
validProviders == {"openai", "anthropic", "http"}

TextContextPrefix ==
    <<"C","o","n","t","e","x","t",":"," ">>

\* The callback of config.tests.map: the test case it returns, or the error it throws.
ValidateTest(test) ==
    IF test.name = "" THEN Throw("Test ${i + 1}: 'name' is required")
    ELSE IF test.prompt = <<>>
    THEN ThrowMsg("Test \"${test.name}\": 'prompt' is required", <<test.name>>)
    ELSE IF test.assertions = <<>>
    THEN ThrowMsg("Test \"${test.name}\": at least one assertion is required", <<test.name>>)
    ELSE IF \E j \in 1..Len(test.assertions) : test.assertions[j].type = ""
    THEN ThrowMsg("Test \"${test.name}\", assertion ${j + 1}: 'type' is required",
                  <<test.name>>)
    ELSE Return([test EXCEPT !.prompt =
                    IF Truthy(test.context)
                    THEN TextContextPrefix \o test.context.v \o <<"\n", "\n">> \o test.prompt
                    ELSE test.prompt])

\* validateConfig(raw) for a parsed YAML object.
validateConfig(raw) ==
    IF raw.version # 1
    THEN ThrowMsg("Unsupported config version: ${config.version}. Expected 1", <<raw.version>>)
    ELSE IF raw.defaults = Undefined THEN Throw("Config must have a 'defaults' section")
    ELSE IF ~Truthy(raw.defaults.provider) \/ raw.defaults.provider.t # "string"
    THEN Throw("defaults.provider is required and must be a string")
    ELSE IF ~Truthy(raw.defaults.model) \/ raw.defaults.model.t # "string"
    THEN Throw("defaults.model is required and must be a string")
    ELSE IF raw.defaults.provider.id \notin validProviders
    THEN ThrowMsg("Invalid provider \"${defaults.provider}\". Must be one of: openai, anthropic, http",
                  <<raw.defaults.provider>>)
    ELSE IF raw.tests = <<>> THEN Throw("Config must have at least one test")
    ELSE LET tests == [i \in 1..Len(raw.tests) |-> ValidateTest(raw.tests[i])]
         IN IF \E i \in 1..Len(tests) : tests[i].kind = "throw"
            THEN tests[CHOOSE i \in 1..Len(tests) :
                          /\ tests[i].kind = "throw"
                          /\ \A j \in 1..(i - 1) : tests[j].kind = "return"]
            ELSE Return([defaults |-> raw.defaults,
                         tests |-> [i \in 1..Len(tests) |-> tests[i].value]])

\* A test case as the YAML file spells it.
RawTest(name, context, provider, model, base_url, temperature, max_tokens, assertions) ==
    [name |-> name, context |-> context, prompt |-> PromptRefund, provider |-> provider,
     model |-> model, base_url |-> base_url, system |-> Undefined,
     temperature |-> temperature, max_tokens |-> max_tokens, tools |-> Undefined,
     assertions |-> assertions]

RawTests ==
    { RawTest("plain", Undefined, Undefined, Undefined, Undefined, Undefined, Undefined,
              <<WithValue("contains", Str(TextRefund))>>),
      RawTest("tuned", Str(TextHello), Undefined, Id("case-model"), Id("http://case.test"),
              Num(0), Num(50), <<WithValue("llm_judge", Str(TextCriterion))>>),
      RawTest("viaOpenai", Undefined, Id("openai"), Undefined, Id("http://case.test"),
              Num(2), Undefined, <<WithValue("contains", Str(TextRefund))>>),
      RawTest("viaHttp", Undefined, Id("http"), Undefined, Undefined, Undefined, Num(0),
              <<WithValue("contains", Str(TextRefund))>>),
      RawTest("viaGemini", Undefined, Id("gemini"), Undefined, Undefined, Undefined,
              Undefined, <<WithValue("contains", Str(TextRefund))>>),
      RawTest("unasserted", Undefined, Undefined, Undefined, Undefined, Undefined, Undefined,
              <<>>) }

RawDefaults ==
    { [provider |-> Id(provider), model |-> Id("test-model"), base_url |-> base_url,
       temperature |-> temperature, max_tokens |-> max_tokens] :
        provider \in {"openai", "anthropic", "http", "gemini"},
        base_url \in {Undefined, Id("http://suite.test")},
        temperature \in {Undefined, Num(7)}, max_tokens \in {Undefined, Num(100)} }

RawConfigs ==
    { [version |-> version, defaults |-> defaults, tests |-> tests] :
        version \in {1, 2}, defaults \in RawDefaults \cup {Undefined},
        tests \in {<<>>} \cup SeqsUpTo(RawTests, 2) }

LoadInputs ==
    { [config |-> raw,
       options |-> [verbose |-> FALSE, providerOverride |-> override],
       env |-> BothKeys] :
        raw \in RawConfigs, override \in {Undefined, DemoProvider} }

\* The CLI has parsed the file: validateConfig is about to be applied to it.
InitLoad ==
    \E input \in LoadInputs :
        /\ config = input.config
        /\ options = input.options
        /\ env = input.env
        /\ JUDGE_PROVIDER = input.env.AGENTCI_JUDGE_PROVIDER
        /\ JUDGE_MODEL = input.env.AGENTCI_JUDGE_MODEL
        /\ pc = "load"
        /\ idx = 1
        /\ ai = 1
        /\ response = NoResponse
        /\ assertionResults = <<>>
        /\ results = <<>>
        /\ runResult = NoRunResult
        /\ pending = NoFetch
        /\ providerLog = <<>>
        /\ chatLog = <<>>
        /\ chatInFlight = 0
        /\ judgeLog = <<>>
        /\ judgeInFlight = 0
        /\ evalLog = <<>>
        /\ unitCall = NoCall
        /\ unitResult = NoResult

\* loadConfig returns validateConfig(parsed): a throw ends the process before
\* runAllTests is called, a returned configuration is handed to it.
LoadConfig ==
    /\ pc = "load"
    /\ LET c == validateConfig(config)
       IN IF c.kind = "throw"
          THEN pc' = "rejected" /\ config' = config
          ELSE pc' = "start" /\ config' = c.value
    /\ UNCHANGED <<options, env, JUDGE_PROVIDER, JUDGE_MODEL, idx, ai, response,
                   assertionResults, results, runResult, pending, providerLog, chatLog,
                   chatInFlight, judgeLog, judgeInFlight, evalLog, unitCall, unitResult>>

NextLoad ==
    \/ LoadConfig
    \/ Next

SpecLoad == InitLoad /\ [][NextLoad]_vars

(***************************************************************************)
(* The exported functions called directly, as the unit tests call them:    *)
(* the runner is not started, one function is applied to one input.        *)
(***************************************************************************)
DirectCall(c) ==
    /\ config = [defaults |-> Defaults("openai"), tests |-> <<>>]
    /\ options = [verbose |-> FALSE, providerOverride |-> Undefined]
    /\ env = BothKeys
    /\ JUDGE_PROVIDER = BothKeys.AGENTCI_JUDGE_PROVIDER
    /\ JUDGE_MODEL = BothKeys.AGENTCI_JUDGE_MODEL
    /\ pc = "direct"
    /\ idx = 1
    /\ ai = 1
    /\ response = NoResponse
    /\ assertionResults = <<>>
    /\ results = <<>>
    /\ runResult = NoRunResult
    /\ pending = NoFetch
    /\ providerLog = <<>>
    /\ chatLog = <<>>
    /\ chatInFlight = 0
    /\ judgeLog = <<>>
    /\ judgeInFlight = 0
    /\ evalLog = <<>>
    /\ unitCall = c
    /\ unitResult = NoResult

RunnerUnchanged ==
    UNCHANGED <<config, options, env, JUDGE_PROVIDER, JUDGE_MODEL, pc, idx, ai, response,
                assertionResults, results, runResult, pending, providerLog, chatLog,
                chatInFlight, judgeLog, judgeInFlight, evalLog, unitCall>>

\* The body of a 200 reply of each judge backend that carries `content` as the judge's text.
JudgeEnvelope(backend, content) ==
    IF backend = "anthropic"
    THEN Obj(<< <<"content", Arr(<<Obj(<< <<"type", Id("text")>>,
                                         <<"text", Str(content)>> >>)>>)>> >>)
    ELSE Obj(<< <<"choices", Arr(<<Obj(<< <<"message",
                                           Obj(<< <<"content", Str(content)>> >>)>> >>)>>)>> >>)

\* The verdict objects a judge replies with, and the text a judge puts around them.
VerdictTexts ==
    {TextEmptyObject, TextVerdictPass, TextVerdictFail, TextVerdictPassed, TextVerdictBare,
     TextVerdictNoBoolean, TextVerdictBothKeys, TextVerdictBothReasons, TextVerdictLong}
VerdictPrefixes == {<<>>, TextFenceOpen, TextLeadIn}
VerdictSuffixes == {<<>>, TextFenceClose, TextDone, TextTrailingBrace, TextSecondObject}

JudgeCalls ==
    { [fn |-> "llm_judge", backend |-> backend, prefix |-> prefix, verdict |-> verdict,
       suffix |-> suffix] :
         backend \in {"openai", "anthropic"}, prefix \in VerdictPrefixes,
         verdict \in VerdictTexts, suffix \in VerdictSuffixes }

\* assertLlmJudge from the point the fetch of its judge call settles with a 200 reply.
CallLlmJudge ==
    /\ unitCall.fn = "llm_judge"
    /\ unitResult = NoResult
    /\ unitResult' =
          <<JudgeSettled([NoFetch EXCEPT !.backend = unitCall.backend, !.type = "llm_judge"],
                         [kind |-> "response", ok |-> TRUE, status |-> 200, text |-> <<>>,
                          json |-> JudgeEnvelope(unitCall.backend,
                                                 unitCall.prefix \o unitCall.verdict
                                                    \o unitCall.suffix)])>>
    /\ RunnerUnchanged

\* A response whose content is `content`, with no tool calls.
TextResponse(content) ==
    [content |-> content, tool_calls |-> Undefined, usage |-> Undefined]

\* Texts of `words` words, 0..MaxWords: the words separated by one space, or by two
\* white-space characters with white space before the first and after the last.
TextOfWords(words, layout) ==
    IF layout = "spaced"
    THEN [i \in 1..(IF words = 0 THEN 0 ELSE 2 * words - 1) |->
             IF i % 2 = 1 THEN "w" ELSE " "]
    ELSE [i \in 1..(2 + 4 * words) |->
             IF i = 1 THEN " "
             ELSE IF i = 2 THEN "\n"
             ELSE IF i % 4 = 3 THEN "a"
             ELSE IF i % 4 = 0 THEN "b"
             ELSE IF i % 4 = 1 THEN "\t"
             ELSE " "]

TokenLimits == {0, 1, 50, 99, 100, 101}

\* max_tokens and min_tokens with the same limit on the same response.
TokenCalls ==
    { [fn |-> "runAssertion", group |-> "tokens", words |-> words, limit |-> limit,
       calls |-> << [response |-> TextResponse(TextOfWords(words, layout)),
                     assertion |-> WithValue("max_tokens", Num(limit))],
                    [response |-> TextResponse(TextOfWords(words, layout)),
                     assertion |-> WithValue("min_tokens", Num(limit))] >>] :
         words \in 0..MaxWords, layout \in {"spaced", "padded"}, limit \in TokenLimits }

\* The same text in another letter case: upper, lower, or every letter switched.
Recase(s, how) ==
    [i \in 1..Len(s) |->
        LET upper == \E k \in 1..26 : UpperChars[k] = s[i]
            lower == \E k \in 1..26 : LowerChars[k] = s[i]
        IN IF lower /\ how \in {"upper", "switched"}
           THEN UpperChars[CHOOSE k \in 1..26 : LowerChars[k] = s[i]]
           ELSE IF upper /\ how \in {"lower", "switched"}
           THEN LowerChars[CHOOSE k \in 1..26 : UpperChars[k] = s[i]]
           ELSE s[i]]

Recasings == {"same", "upper", "lower", "switched"}

TextContents == {TextHelloWorldMixed, TextOrderNumber, <<>>}
TextValues == {TextHello, TextWorldBang, TextOrderNumber, TextO, <<>>}

\* contains and not_contains on a response and a value, then on the same response and
\* value in another letter case.
TextCalls ==
    { [fn |-> "runAssertion", group |-> "text",
       calls |-> << [response |-> TextResponse(content),
                     assertion |-> WithValue("contains", Str(value))],
                    [response |-> TextResponse(content),
                     assertion |-> WithValue("not_contains", Str(value))],
                    [response |-> TextResponse(Recase(content, r)),
                     assertion |-> WithValue("contains", Str(Recase(value, v)))],
                    [response |-> TextResponse(Recase(content, r)),
                     assertion |-> WithValue("not_contains", Str(Recase(value, v)))] >>] :
         content \in TextContents, value \in TextValues, r \in Recasings, v \in Recasings }

\* Arguments a tool is called with, and the arguments a tool_args assertion expects:
\* flat ones, and ones with a nested object whose keys come in either order.
FilterAB == Obj(<< <<"a", Num(1)>>, <<"b", Num(2)>> >>)
FilterBA == Obj(<< <<"b", Num(2)>>, <<"a", Num(1)>> >>)

ActualArgs ==
    { Obj(<< <<"city", Str(TextParis)>>, <<"units", Str(TextCelsius)>> >>),
      Obj(<< <<"city", Str(TextLondon)>> >>),
      Obj(<< <<"city", Str(TextLondon)>>, <<"filter", FilterAB>> >>),
      Obj(<< <<"city", Str(TextParis)>>, <<"units", Str(TextCelsius)>>,
             <<"filter", FilterBA>> >>) }

ExpectedArgs ==
    { Obj(<<>>),
      ParisArgs,
      Obj(<< <<"units", Str(TextCelsius)>>, <<"city", Str(TextParis)>> >>),
      Obj(<< <<"filter", FilterAB>> >>),
      Obj(<< <<"city", Str(TextParis)>>, <<"filter", FilterAB>> >>) }

ToolCallLists(arguments) ==
    { <<>>,
      <<[name |-> "search", arguments |-> arguments]>>,
      <<[name |-> "get_weather", arguments |-> arguments]>>,
      <<[name |-> "search", arguments |-> ParisArgs],
        [name |-> "get_weather", arguments |-> arguments]>> }

\* tool_args on a response that carries tool calls.
ToolCalls ==
    { [fn |-> "runAssertion", group |-> "tools",
       calls |-> << [response |-> [content |-> <<>>, tool_calls |-> Arr(list),
                                   usage |-> Undefined],
                     assertion |-> [NoFields EXCEPT !.type = "tool_args",
                                                    !.name = Id("get_weather"),
                                                    !.contains = expected]] >>] :
         list \in UNION { ToolCallLists(arguments) : arguments \in ActualArgs },
         expected \in ExpectedArgs }

\* Responses that invoke tools two or three times, the same tool more than once among
\* them; tool_args and then tool_called are evaluated on each.
Invocations ==
    { [name |-> "search", arguments |-> ParisArgs],
      [name |-> "get_weather", arguments |-> Obj(<< <<"city", Str(TextLondon)>> >>)],
      [name |-> "get_weather", arguments |-> ParisArgs],
      [name |-> "get_weather",
       arguments |-> Obj(<< <<"city", Str(TextParis)>>, <<"units", Str(TextCelsius)>> >>)] }

RepeatedCalls ==
    { [fn |-> "runAssertion", group |-> "repeated",
       calls |-> << [response |-> [content |-> <<>>, tool_calls |-> Arr(list),
                                   usage |-> Undefined],
                     assertion |-> [NoFields EXCEPT !.type = "tool_args",
                                                    !.name = Id("get_weather"),
                                                    !.contains = expected]],
                    [response |-> [content |-> <<>>, tool_calls |-> Arr(list),
                                   usage |-> Undefined],
                     assertion |-> WithName("tool_called", Id("get_weather"))] >>] :
         list \in [1..2 -> Invocations] \cup [1..3 -> Invocations],
         expected \in { ParisArgs,
                        Obj(<< <<"units", Str(TextCelsius)>>, <<"city", Str(TextParis)>> >>) } }

\* Prompts for the demo provider: for each keyword group in the order of the source
\* (shipping, greeting, refund, technical support, pricing, tool) one of two of its
\* keywords or none, joined by spaces, as written or in upper case.
GroupKeywords ==
    << {<<>>, KwDeliver, KwTracking},
       {<<>>, KwHi, KwHelp},
       {<<>>, KwRefund, KwMoneyBack},
       {<<>>, KwError, KwNotWorking},
       {<<>>, KwPrice, KwPlan},
       {<<>>, KwWeather, KwLookUp} >>

RECURSIVE JoinWords(_)
JoinWords(words) ==
    IF words = <<>> THEN <<>>
    ELSE Head(words) \o <<" ">> \o JoinWords(Tail(words))

KeywordChoices ==
    { <<k1, k2, k3, k4, k5, k6>> :
         k1 \in GroupKeywords[1], k2 \in GroupKeywords[2], k3 \in GroupKeywords[3],
         k4 \in GroupKeywords[4], k5 \in GroupKeywords[5], k6 \in GroupKeywords[6] }

\* The same request sent twice to the demo provider.
DemoCalls ==
    { [fn |-> "chat", keywords |-> k,
       request |-> [model |-> Id("demo-model"), system |-> Undefined,
                    prompt |-> Recase(JoinWords(k), how), temperature |-> Num(0),
                    max_tokens |-> Num(500), tools |-> tools]] :
         k \in KeywordChoices, how \in {"same", "upper"},
         tools \in {Undefined, Arr(<<>>), WeatherTool} }

\* createDemoProvider().chat(request), called for the first and the second time.
CallChat ==
    /\ unitCall.fn = "chat"
    /\ Len(unitResult) < 2
    /\ \E outcome \in ChatOutcomes(DemoProvider, unitCall.request) :
          unitResult' = Append(unitResult, outcome)
    /\ RunnerUnchanged

\* Requests handed to the HTTP adapter directly.
HttpRequests ==
    { [model |-> Str(TextTestModel), system |-> Undefined, prompt |-> TextWhatIs,
       temperature |-> temperature, max_tokens |-> Num(500), tools |-> tools] :
         temperature \in {Num(0), Num(7)},
         tools \in {Undefined, Arr(<<Obj(<< <<"name", Str(TextGetWeather)>> >>)>>)} }

\* The leaves of request templates: single placeholders, strings with placeholders in
\* them, strings without any, and leaves that are not strings.
TemplateLeaves ==
    { Str(TplPrompt), Str(TplTemperature), Str(TplMaxTokens), Str(TplTools), Str(TplSystem),
      Str(TplNoSuch), Str(TplSentence), Str(TplBracketed), Str(TplConstructor),
      Str(TplToStringInline), Str(TplPlain), Num(42), Bool(FALSE), Null }

\* A template with `leaf` as a member, as an array item, or inside an object of an array.
Nest(nesting, leaf) ==
    CASE nesting = "member" -> Obj(<< <<"field", leaf>> >>)
      [] nesting = "item" -> Obj(<< <<"items", Arr(<<leaf, Num(1)>>)>> >>)
      [] nesting = "deep" ->
           Obj(<< <<"outer", Arr(<<Obj(<< <<"inner", leaf>>, <<"flag", Bool(TRUE)>>,
                                          <<"none", Null>> >>)>>)>> >>)

OkReply(json) ==
    [kind |-> "response", ok |-> TRUE, status |-> 200, json |-> json, text |-> <<>>]

TemplateCalls ==
    { [fn |-> "http", group |-> "template", leaf |-> leaf, nesting |-> nesting,
       options |-> [requestTemplate |-> Nest(nesting, leaf), responsePath |-> <<"content">>],
       request |-> request,
       reply |-> OkReply(Obj(<< <<"content", Str(TextOk)>> >>))] :
         leaf \in TemplateLeaves, nesting \in {"member", "item", "deep"},
         request \in HttpRequests }

\* Reply bodies and response paths: the path leads to a value, or it does not.
PathBodies ==
    { Obj(<< <<"content", Str(TextHelloWorld)>> >>),
      Obj(<< <<"content", Str(<<>>)>> >>),
      Obj(<< <<"content", Num(42)>> >>),
      Obj(<< <<"content", Null>> >>),
      Obj(<< <<"other", Str(TextOk)>> >>),
      Obj(<< <<"data", Obj(<< <<"reply", Obj(<< <<"text", Str(TextOk)>> >>)>> >>)>> >>),
      Obj(<< <<"data", Obj(<< <<"reply", Null>> >>)>> >>),
      Obj(<< <<"data", Null>> >>),
      Obj(<< <<"data", Str(TextOk)>> >>),
      Obj(<< <<"data", Arr(<<Obj(<< <<"text", Str(TextOk)>> >>)>>)>> >>) }

ResponsePaths ==
    { <<"content">>, <<"data", "reply", "text">>, <<"data", "missing">>,
      <<"data", "reply">>, <<"data", "0", "text">> }

PathCalls ==
    { [fn |-> "http", group |-> "path",
       options |-> [requestTemplate |-> Undefined, responsePath |-> path],
       request |-> request, reply |-> OkReply(body)] :
         path \in ResponsePaths, body \in PathBodies, request \in HttpRequests }

\* createHttpProvider(options).chat(request): the body it sends and what it settles to.
CallHttpChat ==
    /\ unitCall.fn = "http"
    /\ unitResult = NoResult
    /\ unitResult' = <<[sent |-> JSONStringify(HttpBody(unitCall.options, unitCall.request)),
                        outcome |-> HttpChat(unitCall.options, unitCall.reply)]>>
    /\ RunnerUnchanged

\* runAssertion(response, assertion), called for the next pair of the unit.
CallRunAssertion ==
    /\ unitCall.fn = "runAssertion"
    /\ Len(unitResult) < Len(unitCall.calls)
    /\ LET c == unitCall.calls[Len(unitResult) + 1]
       IN unitResult' = Append(unitResult,
                               runAssertion(c.response, c.assertion, env,
                                            JUDGE_PROVIDER, JUDGE_MODEL))
    /\ RunnerUnchanged

UnitCalls ==
    JudgeCalls \cup TokenCalls \cup TextCalls \cup ToolCalls \cup DemoCalls
       \cup TemplateCalls \cup PathCalls \cup RepeatedCalls

InitUnit == \E c \in UnitCalls : DirectCall(c)

NextUnit ==
    \/ CallLlmJudge
    \/ CallRunAssertion
    \/ CallChat
    \/ CallHttpChat

SpecUnit == InitUnit /\ [][NextUnit]_vars

(***************************************************************************)
(* Properties of the runner.                                               *)
(***************************************************************************)
\* C1: the provider's chat is invoked at most once per test case, and exactly once for
\* a test case for which a provider instance was obtained (none when obtaining it
\* failed, none before the test case is started), however many assertions the test
\* case declares and whether or not the call failed.
C1_ChatOncePerTest ==
    \A t \in 1..Len(config.tests) :
       LET calls == Cardinality({i \in 1..Len(chatLog) : chatLog[i].test = t})
       IN /\ calls <= 1
          /\ t <= Len(providerLog) =>
                calls = (IF providerLog[t].kind = "return" THEN 1 ELSE 0)
          /\ t > Len(providerLog) => calls = 0

\* A finished run in which one provider call failed and another test case had two
\* assertions evaluated.
C1_Witness ==
    /\ pc = "done"
    /\ \E i \in 1..Len(chatLog) : chatLog[i].outcome.kind = "throw"
    /\ \E i \in 1..Len(chatLog) :
          /\ chatLog[i].outcome.kind = "return"
          /\ Len(results[chatLog[i].test].assertions) = 2

\* C2: when the provider call succeeded every declared assertion is evaluated, the
\* TestResult holds one assertion result per declared assertion in declaration order,
\* and passed is true exactly when every assertion result passed.
C2_EveryAssertionEvaluated ==
    \A i \in 1..Len(chatLog) :
       LET t == chatLog[i].test
           declared == config.tests[t].assertions
       IN chatLog[i].outcome.kind = "return" /\ t <= Len(results) =>
             /\ \A k \in 1..Len(declared) :
                   \E e \in 1..Len(evalLog) : evalLog[e].test = t /\ evalLog[e].assertion = k
             /\ Len(results[t].assertions) = Len(declared)
             /\ \A k \in 1..Len(results[t].assertions) :
                   results[t].assertions[k].assertion = declared[k]
             /\ results[t].passed =
                   (\A k \in 1..Len(results[t].assertions) :
                       ResultPassed(results[t].assertions[k].result))

\* C3: when the provider call raises, the TestResult has passed = false, the error of
\* the call, an empty assertion list, and no evaluator and no judge call ran for the
\* test case.
C3_ProviderFailure ==
    \A i \in 1..Len(chatLog) :
       LET t == chatLog[i].test
       IN chatLog[i].outcome.kind = "throw" =>
             /\ t <= Len(results)
             /\ results[t].passed = FALSE
             /\ results[t].error = chatLog[i].outcome.error
             /\ results[t].assertions = <<>>
             /\ \A e \in 1..Len(evalLog) : evalLog[e].test # t
             /\ \A j \in 1..Len(judgeLog) : judgeLog[j].test # t

\* A provider call that failed for a test case declaring two assertions.
C3_Witness ==
    \E i \in 1..Len(chatLog) :
       /\ chatLog[i].outcome.kind = "throw"
       /\ Len(config.tests[chatLog[i].test].assertions) = 2
       /\ results[chatLog[i].test].error # Undefined

\* C4: when the provider call succeeded the TestResult has no top-level error and one
\* assertion result per declared assertion.
C4_NoErrorAfterResponse ==
    \A i \in 1..Len(chatLog) :
       LET t == chatLog[i].test
       IN chatLog[i].outcome.kind = "return" /\ t <= Len(results) =>
             /\ results[t].error = Undefined
             /\ Len(results[t].assertions) = Len(config.tests[t].assertions)

\* C5: runAssertion always produces an AssertionResult and never throws, and the
\* result has passed = false when the field the assertion type needs is absent.
C5_AlwaysAnAssertionResult ==
    \A e \in 1..Len(evalLog) :
       LET assertion == config.tests[evalLog[e].test].assertions[evalLog[e].assertion]
           c == evalLog[e].completion
           needed == CASE assertion.type \in {"regex"} -> {"pattern"}
                       [] assertion.type \in {"tool_called"} -> {"name"}
                       [] assertion.type \in {"tool_args"} -> {"name", "contains"}
                       [] assertion.type \in {"json_schema"} -> {"schema"}
                       [] assertion.type \in {"json_valid"} -> {}
                       [] assertion.type \in RegisteredTypes
                                             \ {"regex", "tool_called", "tool_args",
                                                "json_schema", "json_valid"} -> {"value"}
                       [] OTHER -> {}
       IN /\ c.kind # "throw"
          /\ c.kind = "return" =>
                /\ {"passed", "message"} \subseteq DOMAIN c.value
                /\ (\E f \in needed : assertion[f] = Undefined) => c.value.passed = FALSE

\* C6: an assertion whose type is not a registered one, the names every object
\* inherits included, gets passed = false with the message
\* unknown assertion type: "<type>", and no evaluator is called.
C6_UnknownType ==
    \A e \in 1..Len(evalLog) :
       LET assertion == config.tests[evalLog[e].test].assertions[evalLog[e].assertion]
       IN assertion.type \notin RegisteredTypes =>
             /\ ~evalLog[e].called
             /\ evalLog[e].completion =
                   Return([passed |-> FALSE,
                           message |-> Msg("unknown assertion type: \"${assertion.type}\"",
                                           <<assertion.type>>)])

\* C7: runAllTests returns one TestResult per test case, in the order of the test
\* cases, with total the number of test cases, passed the number of results that
\* passed and failed the rest; a test case that fails does not keep the later ones
\* from running.
C7_OneResultPerTest ==
    /\ Len(results) <= Len(config.tests)
    /\ \A t \in 1..Len(results) : results[t].name = config.tests[t].name
    /\ pc # "done" => Len(results) = idx - 1
    /\ pc = "done" =>
          /\ runResult.results = results
          /\ Len(runResult.results) = Len(config.tests)
          /\ runResult.total = Len(config.tests)
          /\ runResult.passed = Cardinality({t \in 1..Len(results) : results[t].passed})
          /\ runResult.failed = runResult.total - runResult.passed

\* Four test cases, the third one raising: total 4, passed 3, failed 1.
C7_Witness ==
    /\ pc = "done"
    /\ Len(config.tests) = 4
    /\ results[3].error # Undefined
    /\ runResult.total = 4
    /\ runResult.passed = 3
    /\ runResult.failed = 1

\* C8: the run is strictly sequential: the provider call of test case N+1 is not
\* issued before the TestResult of test case N is recorded, assertion i+1 of a test
\* case is not started before assertion i has produced its result, and there are never
\* two provider calls or two judge calls in flight.
C8_StrictlySequential ==
    /\ chatInFlight <= 1
    /\ judgeInFlight <= 1
    /\ \A i \in 1..Len(chatLog) : chatLog[i].test <= Len(results) + 1
    /\ \A i \in 1..Len(chatLog) :
          chatLog[i].outcome.kind = "pending" => chatLog[i].test = Len(results) + 1
    /\ \A e \in 1..Len(evalLog) :
          evalLog[e].test = Len(results) + 1 =>
             evalLog[e].assertion <= Len(assertionResults) + 1

\* The third provider call in flight, two TestResults recorded.
C8_Witness ==
    /\ chatInFlight = 1
    /\ Len(results) = 2
    /\ Len(chatLog) = 3

(***************************************************************************)
(* Properties of the judge backend selector.                               *)
(***************************************************************************)
\* C9: a judge call made while no backend override is set in the environment uses the
\* OpenAI backend when OPENAI_API_KEY is present, else the Anthropic backend when
\* ANTHROPIC_API_KEY is present, else fails with "No API key found for judge" and
\* issues no HTTP call.
C9_AutoDetect ==
    \A j \in 1..Len(judgeLog) :
       LET call == judgeLog[j]
       IN call.env.AGENTCI_JUDGE_PROVIDER = <<>> =>
             IF call.env.OPENAI_API_KEY # "" THEN call.url = OPENAI_URL
             ELSE IF call.env.ANTHROPIC_API_KEY # "" THEN call.url = ANTHROPIC_URL
             ELSE /\ call.url = ""
                  /\ call.error =
                       "No API key found for judge. Set OPENAI_API_KEY or ANTHROPIC_API_KEY."

\* C10: a judge call made while AGENTCI_JUDGE_PROVIDER is openai or anthropic uses that
\* backend when its credential is present, and otherwise fails with a message and
\* issues no HTTP call, whatever the other credential.
C10_ExplicitOverride ==
    \A j \in 1..Len(judgeLog) :
       LET call == judgeLog[j]
           override == call.env.AGENTCI_JUDGE_PROVIDER
       IN /\ override = TextOpenai =>
                IF call.env.OPENAI_API_KEY # "" THEN call.url = OPENAI_URL
                ELSE call.url = "" /\ call.error # ""
          /\ override = TextAnthropic =>
                IF call.env.ANTHROPIC_API_KEY # "" THEN call.url = ANTHROPIC_URL
                ELSE call.url = "" /\ call.error # ""

\* C11: the two credentials, the backend override and the model override are read at
\* each judge call: when the environment changed since the previous judge call of the
\* run, the backend and the model of the call are the ones the selection policy gives
\* for the environment as it stands at the call.
C11_ReadAtCallTime ==
    \A j \in 2..Len(judgeLog) :
       LET call == judgeLog[j]
           policy == detectJudgeBackend(call.env, call.env.AGENTCI_JUDGE_PROVIDER,
                                        call.env.AGENTCI_JUDGE_MODEL)
       IN call.env # judgeLog[j - 1].env =>
             IF "error" \in DOMAIN policy THEN call.url = ""
             ELSE /\ call.url = (IF policy.backend = "anthropic" THEN ANTHROPIC_URL
                                 ELSE OPENAI_URL)
                  /\ call.model = policy.model

\* C12: a judge call made with only the Anthropic credential present (and no backend
\* override) goes to the Anthropic endpoint, and the model of every judge call is the
\* model override of the environment when one is set, else the default of the backend
\* called: claude-sonnet-4-20250514 for Anthropic, gpt-4o-mini for OpenAI.
C12_AnthropicOnly ==
    \A j \in 1..Len(judgeLog) :
       LET call == judgeLog[j]
           override == call.env.AGENTCI_JUDGE_MODEL
       IN /\ ( /\ call.env.OPENAI_API_KEY = ""
               /\ call.env.ANTHROPIC_API_KEY # ""
               /\ call.env.AGENTCI_JUDGE_PROVIDER = <<>> ) => call.url = ANTHROPIC_URL
          /\ call.url = ANTHROPIC_URL =>
                call.model = (IF override # "" THEN override ELSE "claude-sonnet-4-20250514")
          /\ call.url = OPENAI_URL =>
                call.model = (IF override # "" THEN override ELSE "gpt-4o-mini")

\* C13: a judge assertion (llm_judge, semantic_similarity, sentiment) whose value is
\* absent or empty fails with "<type> requires a 'value' field ..." and makes no HTTP
\* call; any other judge assertion makes at most one HTTP call, to one of the two
\* judge endpoints, and no two judge calls are ever in flight.
C13_ValueRequired ==
    /\ judgeInFlight <= 1
    /\ \A k \in 1..Len(evalLog) :
          LET ev == evalLog[k]
              assertion == config.tests[ev.test].assertions[ev.assertion]
              calls == {j \in 1..Len(judgeLog) : /\ judgeLog[j].test = ev.test
                                                 /\ judgeLog[j].assertion = ev.assertion
                                                 /\ judgeLog[j].url # ""}
          IN assertion.type \in JudgeTypes =>
                IF assertion.value \in {Undefined, Str(<<>>)}
                THEN /\ ~ev.fetched
                     /\ calls = {}
                     /\ ev.completion.kind = "return"
                     /\ ~ev.completion.value.passed
                     /\ ev.completion.value.message.text =
                           CASE assertion.type = "llm_judge" ->
                                  "llm_judge requires a 'value' field with the evaluation criterion"
                             [] assertion.type = "semantic_similarity" ->
                                  "semantic_similarity requires a 'value' field with the reference text"
                             [] assertion.type = "sentiment" ->
                                  "sentiment requires a 'value' field with the expected tone"
                ELSE /\ Cardinality(calls) <= 1
                     /\ ev.fetched <=> calls # {}
                     /\ \A j \in calls : judgeLog[j].url \in {OPENAI_URL, ANTHROPIC_URL}

\* An llm_judge assertion with the empty string as value has been evaluated and has
\* returned its result.
C13_WitnessEmpty ==
    \E k \in 1..Len(evalLog) :
       /\ config.tests[evalLog[k].test].assertions[evalLog[k].assertion]
             = WithValue("llm_judge", Str(<<>>))
       /\ evalLog[k].completion.kind = "return"

\* C14: every failure of a judge call (an error status, a transport failure, a 2xx
\* reply whose body is not the expected envelope, a verdict that cannot be decoded)
\* ends the judge assertion with a failed AssertionResult: the evaluator never
\* raises, and a test whose judge call failed still gets an assertion result for
\* every assertion of the test.
C14_JudgeFailureContained ==
    /\ \A k \in 1..Len(evalLog) :
          config.tests[evalLog[k].test].assertions[evalLog[k].assertion].type \in JudgeTypes
             => evalLog[k].completion.kind # "throw"
    /\ \A i \in 1..Len(results) :
          (\E k \in 1..Len(evalLog) :
              /\ evalLog[k].test = i
              /\ config.tests[i].assertions[evalLog[k].assertion].type \in JudgeTypes)
             => Len(results[i].assertions) = Len(config.tests[i].assertions)

(***************************************************************************)
(* Properties of the functions called directly.                            *)
(***************************************************************************)
\* C15: the verdict parser decodes the first top-level {...} span of the judge's text:
\* whatever surrounds the verdict object (a code fence, a lead-in, trailing text, also
\* trailing text with a closing brace or a second object), the judge assertion ends
\* as it does for the verdict object alone.
C15_FirstObjectDecoded ==
    (unitCall.fn = "llm_judge" /\ unitResult # NoResult) =>
       unitResult[1] =
          JudgeSettled([NoFetch EXCEPT !.backend = unitCall.backend, !.type = "llm_judge"],
                       [kind |-> "response", ok |-> TRUE, status |-> 200, text |-> <<>>,
                        json |-> JudgeEnvelope(unitCall.backend, unitCall.verdict)])

\* C16: for a reply whose text holds one verdict object, the verdict's boolean is the
\* value of `pass`, or of `passed` when `pass` is absent, and false when neither is
\* there; the explanation is `reasoning`, or `reason` when `reasoning` is absent, or
\* "No reasoning provided", cut to at most 500 characters; and the AssertionResult's
\* passed is the verdict's boolean.
C16_VerdictFields ==
    ( /\ unitCall.fn = "llm_judge"
      /\ unitResult # NoResult
      /\ unitCall.suffix \notin {TextTrailingBrace, TextSecondObject} ) =>
       LET verdict == JSONParse(unitCall.verdict).value
           has(key) == \E i \in 1..Len(verdict.v) : verdict.v[i][1] = key
           get(key) == verdict.v[CHOOSE i \in 1..Len(verdict.v) : verdict.v[i][1] = key][2]
           boolean == IF has("pass") THEN get("pass").v
                      ELSE IF has("passed") THEN get("passed").v
                      ELSE FALSE
           explanation == IF has("reasoning") THEN get("reasoning").v
                          ELSE IF has("reason") THEN get("reason").v
                          ELSE <<"N","o"," ","r","e","a","s","o","n","i","n","g"," ",
                                 "p","r","o","v","i","d","e","d">>
           shown == unitResult[1].value.message.args[2].args[1]
       IN /\ unitResult[1].kind = "return"
          /\ unitResult[1].value.passed = boolean
          /\ unitResult[1].value.message.text =
                (IF boolean THEN "${type} passed: ${judge.reasoning}"
                 ELSE "${type} failed: ${judge.reasoning}")
          /\ Len(shown) <= 500
          /\ shown = [i \in 1..(IF Len(explanation) < 500 THEN Len(explanation) ELSE 500)
                        |-> explanation[i]]

\* A verdict whose reasoning is longer than 500 characters has been decoded from a
\* fenced reply: the assertion passed and shows 500 characters of it.
C16_WitnessTruncated ==
    /\ unitCall.fn = "llm_judge"
    /\ unitCall.verdict = TextVerdictLong
    /\ unitCall.prefix = TextFenceOpen
    /\ unitCall.suffix = TextFenceClose
    /\ unitResult # NoResult
    /\ unitResult[1].value.passed
    /\ Len(unitResult[1].value.message.args[2].args[1]) = 500

\* C17: the token estimate of a response is the ceiling of 4/3 of its number of
\* white-space-delimited non-empty words; max_tokens N passes exactly when the
\* estimate is at most N and min_tokens N exactly when it is at least N.  A response
\* of 75 words is estimated at 100 tokens, an empty or all-white-space one at 0.
C17_TokenEstimate ==
    (unitCall.fn = "runAssertion" /\ unitCall.group = "tokens") =>
       \A k \in 1..Len(unitResult) :
          LET type == unitCall.calls[k].assertion.type
              result == unitResult[k].value
              estimate == CHOOSE n \in 0..(2 * unitCall.words) :
                             /\ 3 * n >= 4 * unitCall.words
                             /\ 3 * (n - 1) < 4 * unitCall.words
              shown == IF result.passed THEN result.message.args[1]
                       ELSE result.message.args[2]
          IN /\ unitResult[k].kind = "return"
             /\ shown = Num(estimate)
             /\ type = "max_tokens" => (result.passed <=> estimate <= unitCall.limit)
             /\ type = "min_tokens" => (result.passed <=> estimate >= unitCall.limit)
             /\ unitCall.words = 75 => estimate = 100
             /\ unitCall.words = 0 => estimate = 0

\* A response of 75 words has passed max_tokens 100 and min_tokens 100.
C17_Witness75Words ==
    /\ unitCall.fn = "runAssertion"
    /\ unitCall.group = "tokens"
    /\ unitCall.words = 75
    /\ unitCall.limit = 100
    /\ Len(unitResult) = 2
    /\ unitResult[1].value.passed
    /\ unitResult[2].value.passed

\* C18: on the same response and the same string value, not_contains passes exactly
\* when contains fails; and both are case-insensitive: on a response and a value that
\* differ from the first ones by letter case only, each gives the same outcome.
C18_ContainsNegation ==
    (unitCall.fn = "runAssertion" /\ unitCall.group = "text") =>
       LET sameUpToCase(x, y) ==
              /\ Len(x) = Len(y)
              /\ \A i \in 1..Len(x) :
                    \/ x[i] = y[i]
                    \/ \E k \in 1..26 : {x[i], y[i]} = {UpperChars[k], LowerChars[k]}
           passed(k) == unitResult[k].value.passed
       IN /\ sameUpToCase(unitCall.calls[1].response.content,
                          unitCall.calls[3].response.content)
          /\ sameUpToCase(unitCall.calls[1].assertion.value.v,
                          unitCall.calls[3].assertion.value.v)
          /\ \A k \in 1..Len(unitResult) : unitResult[k].kind = "return"
          /\ Len(unitResult) >= 2 => (passed(2) <=> ~passed(1))
          /\ Len(unitResult) >= 3 => (passed(3) <=> passed(1))
          /\ Len(unitResult) >= 4 => (passed(4) <=> ~passed(3)) /\ (passed(4) <=> passed(2))

\* contains "WORLD!" has passed and not_contains "WORLD!" has failed on "Hello, World!",
\* and again on "hello, world!" with the value "world!".
C18_WitnessRecased ==
    /\ unitCall.fn = "runAssertion"
    /\ unitCall.group = "text"
    /\ unitCall.calls[1].response.content = TextHelloWorldMixed
    /\ unitCall.calls[1].assertion.value = Str(TextWorldBang)
    /\ unitCall.calls[3].response.content = Recase(TextHelloWorldMixed, "lower")
    /\ unitCall.calls[3].assertion.value = Str(Recase(TextWorldBang, "lower"))
    /\ Len(unitResult) = 4
    /\ unitResult[1].value.passed
    /\ ~unitResult[2].value.passed
    /\ unitResult[3].value.passed
    /\ ~unitResult[4].value.passed

\* C19: tool_args fails when the named tool was not invoked; otherwise it passes
\* exactly when, for every key of `contains`, the tool's argument under that key is
\* structurally equal to the expected value (further arguments of the call are
\* ignored, and the equality of nested objects does not depend on the order of their
\* keys); when it fails, its message names every mismatching key.
C19_ToolArgs ==
    (unitCall.fn = "runAssertion" /\ unitCall.group = "tools" /\ unitResult # NoResult) =>
       LET RECURSIVE equal(_, _)
           equal(a, b) ==
              IF a.t = "object" /\ b.t = "object"
              THEN /\ {a.v[i][1] : i \in 1..Len(a.v)} = {b.v[j][1] : j \in 1..Len(b.v)}
                   /\ \A i \in 1..Len(a.v) : \A j \in 1..Len(b.v) :
                         a.v[i][1] = b.v[j][1] => equal(a.v[i][2], b.v[j][2])
              ELSE a = b
           calls == unitCall.calls[1].response.tool_calls.v
           expected == unitCall.calls[1].assertion.contains.v
           named == {i \in 1..Len(calls) : calls[i].name = "get_weather"}
           toolCall == calls[CHOOSE i \in named : \A j \in named : i <= j]
           actual(key) ==
              IF \E i \in 1..Len(toolCall.arguments.v) : toolCall.arguments.v[i][1] = key
              THEN toolCall.arguments.v[CHOOSE i \in 1..Len(toolCall.arguments.v) :
                                           toolCall.arguments.v[i][1] = key][2]
              ELSE Undefined
           mismatching == {i \in 1..Len(expected) :
                              ~equal(actual(expected[i][1]), expected[i][2])}
           result == unitResult[1].value
       IN /\ unitResult[1].kind = "return"
          /\ IF named = {} THEN ~result.passed
             ELSE /\ result.passed <=> mismatching = {}
                  /\ ~result.passed =>
                        {result.message.args[2][m].args[1] :
                            m \in 1..Len(result.message.args[2])}
                           = {expected[i][1] : i \in mismatching}

\* C20: the demo provider answers by the first keyword group the prompt matches,
\* whatever its letter case, in the order shipping, greeting, refund, technical
\* support, pricing, tool call, default: a prompt that matches several groups gets
\* the answer of the earliest one, the tool call is made only when the request carries
\* at least one tool definition and no earlier group matches, and the same request
\* gets the same response again.
C20_DemoRouting ==
    unitCall.fn = "chat" =>
       LET matched == {g \in 1..6 : unitCall.keywords[g] # <<>>}
           tools == unitCall.request.tools
           eligible == {g \in matched :
                           g = 6 => (tools # Undefined /\ Len(tools.v) >= 1)}
           group == IF eligible = {} THEN 7
                    ELSE CHOOSE g \in eligible : \A h \in eligible : g <= h
           answers == <<ShippingContent, GreetingContent, RefundContent, TechSupportContent,
                        PricingContent, <<>>, DefaultContent>>
       IN /\ \A k \in 1..Len(unitResult) :
                /\ unitResult[k].kind = "return"
                /\ unitResult[k].value.content = answers[group]
                /\ IF group = 6
                   THEN /\ Len(unitResult[k].value.tool_calls.v) = 1
                        /\ unitResult[k].value.tool_calls.v[1].name = tools.v[1].name
                   ELSE unitResult[k].value.tool_calls = Undefined
          /\ Len(unitResult) = 2 => unitResult[1] = unitResult[2]

\* A prompt with a shipping, a greeting and a tool keyword, sent twice with a tool
\* definition, has got the shipping answer both times.
C20_WitnessEarliestGroup ==
    /\ unitCall.fn = "chat"
    /\ unitCall.keywords = <<KwTracking, KwHelp, <<>>, <<>>, <<>>, KwWeather>>
    /\ unitCall.request.tools = WeatherTool
    /\ Len(unitResult) = 2
    /\ unitResult[1].value.content = ShippingContent
    /\ unitResult[2].value.content = ShippingContent

\* C21: with a request template, the body the HTTP adapter sends has, for a string
\* leaf that is exactly one placeholder, the typed value of the field (a number, an
\* array), for any other string leaf the string with every placeholder substituted,
\* a missing or unknown field giving the empty string, and every non-string leaf
\* unchanged, whether the leaf is a member, an array item or nested deeper.
C21_Interpolation ==
    (unitCall.fn = "http" /\ unitCall.group = "template" /\ unitResult # NoResult) =>
       LET leaf == unitCall.leaf
           request == unitCall.request
           digit == IF request.temperature = Num(0) THEN <<"0">> ELSE <<"7">>
           expected ==
              CASE leaf = Str(TplPrompt) -> Str(request.prompt)
                [] leaf = Str(TplTemperature) -> request.temperature
                [] leaf = Str(TplMaxTokens) -> request.max_tokens
                [] leaf = Str(TplTools) ->
                     IF request.tools = Undefined THEN Str(<<>>) ELSE request.tools
                [] leaf = Str(TplSystem) -> Str(<<>>)
                [] leaf = Str(TplNoSuch) -> Str(<<>>)
                [] leaf = Str(TplSentence) ->
                     Str(<<"Q", ":", " ">> \o request.prompt \o <<" ", "(", "t", "=">>
                            \o digit \o <<")">>)
                [] leaf = Str(TplBracketed) -> Str(<<"[", "]">>)
                [] leaf = Str(TplConstructor) -> Str(<<>>)
                [] leaf = Str(TplToStringInline) -> Str(<<"v", "=">>)
                [] OTHER -> leaf
       IN unitResult[1].sent = Nest(unitCall.nesting, expected)

\* C22: on a 2xx reply the content of the HTTP adapter's response is the value at the
\* response path of the parsed body, as a string; when the path does not lead to a
\* value (a missing key, an intermediate segment that is null or not an object, a
\* null at the end of the path) the content is the empty string and nothing is raised.
C22_ResponsePath ==
    (unitCall.fn = "http" /\ unitCall.group = "path" /\ unitResult # NoResult) =>
       LET RECURSIVE walk(_, _)
           walk(value, path) ==
              IF path = <<>> THEN value
              ELSE IF value.t = "object" /\ \E i \in 1..Len(value.v) : value.v[i][1] = Head(path)
              THEN walk(value.v[CHOOSE i \in 1..Len(value.v) : value.v[i][1] = Head(path)][2],
                        Tail(path))
              ELSE IF value.t = "array" /\ Head(path) = "0" /\ Len(value.v) >= 1
              THEN walk(value.v[1], Tail(path))
              ELSE Null
           found == walk(unitCall.reply.json, unitCall.options.responsePath)
           outcome == unitResult[1].outcome
       IN /\ outcome.kind = "return"
          /\ found = Null => outcome.value.content = <<>>
          /\ found.t = "string" => outcome.value.content = found.v
          /\ found = Num(42) => outcome.value.content = <<"4", "2">>

\* C23: validation rejects, before any provider call, every suite in which a provider
\* name is not one of openai, anthropic and http, be it the suite-wide default or the
\* `provider` of a single test case: a suite handed to the runner names no other.
C23_ProvidersValidated ==
    /\ pc = "rejected" => providerLog = <<>> /\ chatLog = <<>>
    /\ pc \notin {"load", "rejected"} =>
          /\ config.defaults.provider.id \in validProviders
          /\ \A i \in 1..Len(config.tests) :
                \/ config.tests[i].provider = Undefined
                \/ config.tests[i].provider.id \in validProviders

C25_ResponseRetained ==
    \A i \in 1..Len(results) :
        results[i].response # Undefined
        <=> /\ options.verbose
            /\ \E k \in 1..Len(chatLog) :
                  chatLog[k].test = i /\ chatLog[k].outcome.kind = "return"

\* C26: no test case affects another.  With the deterministic demo provider and
\* evaluators that make no network call, the TestResult of a test case (name, passed,
\* per-assertion results, error) is a function of that test case and the defaults
\* alone, the same when it is the only test case of the suite and at any position of
\* any suite; and no step of runAllTests changes the configuration or the options.
\* (Stated for the result pushed last, together with: a result once pushed never
\* changes.)
C26_Isolation ==
    /\ [](LET Alone(test) ==
                 LET resp == DemoChat(BuildRequest(test, config))
                     outcome == [j \in 1..Len(test.assertions) |->
                                    runAssertion(resp, test.assertions[j], env,
                                                 JUDGE_PROVIDER, JUDGE_MODEL)]
                     thrown == {j \in 1..Len(outcome) : outcome[j].kind = "throw"}
                     first == CHOOSE j \in thrown : \A k \in thrown : j <= k
                 IN IF \E j \in 1..Len(outcome) : outcome[j].kind = "await"
                    THEN [known |-> FALSE]
                    ELSE IF thrown # {}
                    THEN [known |-> TRUE, name |-> test.name, passed |-> FALSE,
                          assertions |-> <<>>, error |-> outcome[first].error]
                    ELSE [known |-> TRUE, name |-> test.name,
                          passed |-> \A j \in 1..Len(outcome) :
                                        /\ "passed" \in DOMAIN outcome[j].value
                                        /\ outcome[j].value.passed,
                          assertions |-> [j \in 1..Len(outcome) |->
                                             [assertion |-> test.assertions[j],
                                              result |-> outcome[j].value]],
                          error |-> Undefined]
          IN options.providerOverride = DemoProvider =>
                \A i \in {Len(results)} \ {0} :
                    LET alone == Alone(config.tests[i])
                    IN alone.known =>
                          /\ results[i].name = alone.name
                          /\ results[i].passed = alone.passed
                          /\ results[i].assertions = alone.assertions
                          /\ results[i].error = alone.error)
    /\ [][/\ config' = config
           /\ options' = options
           /\ SubSeq(results', 1, Len(results)) = results]_vars

\* Three test cases have run on the demo provider: the first and the third are the same
\* test case, the second is another one whose first assertion ends the other way, and the first and third
\* results are equal.
C26_WitnessRepeatedCase ==
    /\ options.providerOverride = DemoProvider
    /\ Len(results) >= 3
    /\ config.tests[1] = config.tests[3]
    /\ config.tests[2] # config.tests[1]
    /\ results[1] = results[3]
    /\ results[1].error = Undefined /\ results[2].error = Undefined
    /\ results[2].assertions[1].result.passed # results[1].assertions[1].result.passed

\* C27: the runner can instantiate every provider name validation accepts (openai,
\* anthropic, http): in a suite run without a provider override no test case ends in
\* "Unknown provider", and a test case resolved to http issues its one call through
\* the generic HTTP adapter.
C27_ValidProvidersInstantiated ==
    options.providerOverride = Undefined =>
        \A i \in 1..Len(results) :
            LET name == OrElse(config.tests[i].provider, config.defaults.provider).id
            IN name \in validProviders =>
                  /\ results[i].error # Undefined =>
                        results[i].error.text # "Unknown provider: ${providerName}"
                  /\ name = "http" =>
                        Cardinality({k \in 1..Len(chatLog) :
                                        /\ chatLog[k].test = i
                                        /\ chatLog[k].provider.name = "http"}) = 1

\* C28: runTest never throws.  An exception raised while the provider is constructed,
\* during the provider call or while an assertion is evaluated is caught and returned as
\* the TestResult of that test case, and runAllTests gets a result for every test case.
\* In every TestResult: with an error, passed is false, the assertion list is empty and
\* the response is absent; without an error there is exactly one assertion result per
\* declared assertion, in declaration order.
C28_RunTestTotal ==
    /\ \A i \in 1..Len(results) :
          IF results[i].error # Undefined
          THEN /\ results[i].passed = FALSE
               /\ results[i].assertions = <<>>
               /\ results[i].response = Undefined
          ELSE /\ Len(results[i].assertions) = Len(config.tests[i].assertions)
               /\ \A j \in 1..Len(results[i].assertions) :
                     results[i].assertions[j].assertion = config.tests[i].assertions[j]
    /\ \A i \in 1..Len(providerLog) :
          providerLog[i].kind = "throw" =>
             Len(results) >= i /\ results[i].error # Undefined
    /\ \A k \in 1..Len(chatLog) :
          chatLog[k].outcome.kind = "throw" =>
             /\ Len(results) >= chatLog[k].test
             /\ results[chatLog[k].test].error = chatLog[k].outcome.error
    /\ \A k \in 1..Len(evalLog) :
          evalLog[k].completion.kind = "throw" =>
             /\ Len(results) >= evalLog[k].test
             /\ results[evalLog[k].test].error = evalLog[k].completion.error
    /\ pc = "done" => Len(results) = Len(config.tests) /\ runResult.total = Len(config.tests)

\* The second assertion of a test case threw after the first one had been evaluated: the
\* TestResult carries the error and no assertion result.
C28_WitnessEvaluatorThrow ==
    \E k \in 1..Len(evalLog) :
        /\ evalLog[k].completion.kind = "throw"
        /\ evalLog[k].assertion = 2
        /\ Len(results) >= evalLog[k].test
        /\ results[evalLog[k].test].error = evalLog[k].completion.error
        /\ results[evalLog[k].test].assertions = <<>>

\* C29: every response an adapter returns, every branch of the demo adapter included,
\* carries a tool_calls list (empty when no tool was invoked), so tool_called and
\* tool_args evaluated on a response without tool invocations return a failed
\* AssertionResult instead of raising.
C29_ToolCallsListed ==
    pc = "assert" =>
        /\ response.tool_calls.t = "array"
        /\ LET assertion == CurrentTest.assertions[ai]
               c == runAssertion(response, assertion, env, JUDGE_PROVIDER, JUDGE_MODEL)
           IN /\ assertion.type \in {"tool_called", "tool_args"}
              /\ response.tool_calls \in {Undefined, Arr(<<>>)}
              => c.kind = "return" /\ c.value.passed = FALSE

\* C30: when a response invokes the named tool more than once, tool_args compares the
\* asserted keys with the first invocation of that name only (it fails when that one
\* mismatches even if a later invocation matches every asserted key), whereas
\* tool_called passes as soon as any invocation carries the name.
C30_FirstInvocation ==
    (unitCall.fn = "runAssertion" /\ unitCall.group = "repeated" /\ Len(unitResult) = 2) =>
       LET calls == unitCall.calls[1].response.tool_calls.v
           expected == unitCall.calls[1].assertion.contains.v
           named == {i \in 1..Len(calls) : calls[i].name = "get_weather"}
           first == CHOOSE i \in named : \A j \in named : i <= j
           matches(i) ==
              \A e \in 1..Len(expected) :
                 \E a \in 1..Len(calls[i].arguments.v) :
                    calls[i].arguments.v[a] = expected[e]
       IN /\ unitResult[1].kind = "return"
          /\ unitResult[2].kind = "return"
          /\ unitResult[1].value.passed <=> named # {} /\ matches(first)
          /\ unitResult[2].value.passed <=> named # {}

\* The first get_weather invocation lacks an asserted key and a later one matches them
\* all: tool_args has failed and tool_called has passed.
C30_WitnessLaterMatch ==
    /\ unitCall.fn = "runAssertion"
    /\ unitCall.group = "repeated"
    /\ Len(unitResult) = 2
    /\ LET calls == unitCall.calls[1].response.tool_calls.v
       IN /\ Len(calls) = 3
          /\ calls[1].name = "search"
          /\ calls[2] = [name |-> "get_weather",
                         arguments |-> Obj(<< <<"city", Str(TextLondon)>> >>)]
          /\ calls[3] = [name |-> "get_weather", arguments |-> ParisArgs]
    /\ unitCall.calls[1].assertion.contains = ParisArgs
    /\ unitResult[1].value.passed = FALSE
    /\ unitResult[2].value.passed = TRUE

====
